---- MODULE Spec2Model ----
(***************************************************************************)
(* pyRevit loader: tree discovery, content-hash cache, session load loop   *)
(* and reconciliation of the desired tree against the live Revit ribbon.   *)
(*                                                                         *)
(* Eight specifications share the variables below:                          *)
(*   SpecUI    - PyRevitUISession.createpyrevitui over successive reloads  *)
(*   SpecCache - the functions of Lib/pyRevit/_cache.py                    *)
(*   SpecLoad  - Lib/pyRevit/session.py load()                             *)
(*   SpecDisc  - PyRevitUISession.find_scriptgroups over one folder        *)
(*   SpecSession - PyRevitUISession.__init__: reload command and the walk  *)
(*               of the extension root                                     *)
(*   SpecElements - the command classes of Lib/pyRevit/_basicelements.py   *)
(*   SpecRoots - the cache files of tab folders of one name (_cache.py)    *)
(*   SpecPkgs  - update_revit_ui of Lib/pyRevit/_ui.py, package by package *)
(***************************************************************************)
EXTENDS Integers, Sequences, FiniteSets, TLC

VARIABLES
    \* ---- live Revit ribbon and reload passes (src/__init__.py) ----
    uiTabs,        \* names of the ribbon tabs that exist
    uiPanels,      \* set of <<tab, panel>> that exist
    uiItems,       \* <<tab, panel, name>> -> [kind, enabled] : RibbonItems of a panel
    uiButtons,     \* <<tab, panel, item, className>> -> [enabled, AssemblyName] : push buttons of a group item
    pass,          \* the reload pass that ran last
    prev,          \* the reload pass before it
    \* ---- directory walk (src/__init__.py find_script*) ----
    searchdir,     \* os.listdir(searchdir): the files of the folder, in listing order
    found,         \* pyRevitScriptCommands / pyRevitScriptGroups after the walk, or the exception
    homeDir,       \* the extension root: folders and files, each folder in listing order
    loaderDir,     \* os.listdir(loaderDir): the folder the loader runs from
    session,       \* the lists of PyRevitUISession after discovery, or the exception
    \* ---- cache of one tab (src/Lib/pyRevit/_cache.py) ----
    disk,          \* the tab folder: modification times and script content
    cacheFile,     \* content of the tab's cache file in USER_TEMP_DIR
    version,       \* PyRevitVersion.full_version_as_str() of the running session
    tabObj,        \* the Tab object of the running session
    outcome,       \* what the last cache call did, the last store, and what changed since
    \* ---- session.load (src/Lib/pyRevit/session.py) ----
    installed,     \* get_installed_packages(root_dir)
    env,           \* what the load finds: cache files, temp folder, assemblies
    loaded,        \* progress and results of the load loop
    \* ---- command objects (src/Lib/pyRevit/_basicelements.py) ----
    panelDir,      \* the command directories of one panel folder
    panelObj,      \* the Panel after its command directories were taken, with the error records
    \* ---- cache files in USER_TEMP_DIR (src/Lib/pyRevit/_cache.py get_cache_file) ----
    tabRoots,      \* tab folder -> modification times of its entries
    tempDir,       \* cache file name -> the file, the folder it was stored for and its times then
    call,          \* the last store or load: folder, exception, tab, and the file it met
    \* ---- ribbon kept by update_revit_ui (src/Lib/pyRevit/_ui.py) ----
    ribbon,        \* path of a ribbon element (tab, panel, item, button) -> [enabled]
    reconciled     \* the last two update_revit_ui calls: package, elements touched, elements disabled

uiVars == <<uiTabs, uiPanels, uiItems, uiButtons, pass, prev>>
discVars == <<searchdir, found, homeDir, loaderDir, session>>
cacheVars == <<disk, cacheFile, version, tabObj, outcome>>
loadVars == <<installed, env, loaded, panelDir, panelObj, tabRoots, tempDir, call, ribbon, reconciled>>
vars == <<uiTabs, uiPanels, uiItems, uiButtons, pass, prev, searchdir, found,
          homeDir, loaderDir, session, disk, cacheFile, version, tabObj, outcome, installed, env, loaded,
          panelDir, panelObj, tabRoots, tempDir, call, ribbon, reconciled>>

----------------------------------------------------------------------------
(* Bounds of the model *)
MaxPasses == 3          \* reloads of one Revit process that are explored
MaxCmds == 3            \* scripts of one group

----------------------------------------------------------------------------
(* Generic helpers *)

EmptyMap == [k \in {} |-> TRUE]

Put(f, k, v) == (k :> v) @@ f

Front(s) == SubSeq(s, 1, Len(s) - 1)

Last(s) == s[Len(s)]

SeqToSet(s) == {s[i] : i \in 1..Len(s)}

\* Python sorted(list, key=...): stable, ascending by key. k[i] is the key of s[i].
Rank(k, i) == Cardinality({j \in DOMAIN k : k[j] < k[i] \/ (k[j] = k[i] /\ j < i)}) + 1

StableSort(s, k) == [r \in 1..Len(s) |-> s[CHOOSE i \in 1..Len(s) : Rank(k, i) = r]]

----------------------------------------------------------------------------
(* PyRevitUISettings *)

pulldownButtonTypeName == "PulldownButton"
splitButtonTypeName == "SplitButton"
splitPushButtonTypeName == "SplitPushButton"
stackedThreeTypeName == "Stack3"
stackedTwoTypeName == "Stack2"
pushButtonTypeName == "PushButton"
linkButtonTypeName == "PushButton"
smartButtonTypeName == "SmartButton"
masterTabName == "master"

GroupTypes == {pulldownButtonTypeName, splitButtonTypeName, splitPushButtonTypeName,
               stackedThreeTypeName, stackedTwoTypeName, pushButtonTypeName,
               smartButtonTypeName}

----------------------------------------------------------------------------
(* The desired tree: ScriptTab / ScriptPanel / ScriptGroup / ScriptCommand *)

\* ScriptCommand.className = tabname + scriptGroupName + cmdName
ClassName(cmd) == cmd.tabName \o cmd.scriptGroupName \o cmd.cmdName

CommandNode(t, g, c) == [tabName |-> t, scriptGroupName |-> g, cmdName |-> c]

\* ScriptGroup.islinkbutton
islinkbutton(g) == g.assemblyName # "None"

\* ScriptTab.hascommands
hascommands(tab) ==
    \E i \in 1..Len(tab.scriptPanels) :
        \E j \in 1..Len(tab.scriptPanels[i].scriptGroups) :
            Len(tab.scriptPanels[i].scriptGroups[j].commands) > 0

\* ScriptTab.get_sorted_scriptpanels
get_sorted_scriptpanels(tab) ==
    StableSort(tab.scriptPanels, [i \in 1..Len(tab.scriptPanels) |-> tab.scriptPanels[i].panelOrder])

\* ScriptPanel.get_sorted_scriptgroups
get_sorted_scriptgroups(panel) ==
    StableSort(panel.scriptGroups, [i \in 1..Len(panel.scriptGroups) |-> panel.scriptGroups[i].groupOrder])

----------------------------------------------------------------------------
(* Reconciliation against the ribbon: the running state of one reload pass. *)
(*   tabs, panels, items, buttons : the ribbon                              *)
(*   regPanels, regButtons        : ScriptTab.pyRevitUIPanels / pyRevitUIButtons *)
(*   dict                         : pyrevitribbonitemsdict of the current panel *)
(*   subdict                      : existingribbonitempushbuttonsdict of the current group *)
(*   stack                        : stackcommands of the current Stack3 group *)
(*   popped                       : groups whose commands list lost its last element *)
(*   new, upd                     : newbuttoncount, updatedbuttoncount      *)
(*   ok                           : FALSE once an exception left createui   *)
(*   log                          : operations applied to the ribbon, in order *)

Op(o, lvl, t, p, i, b) ==
    [op |-> o, level |-> lvl, tab |-> t, panel |-> p, item |-> i, button |-> b]

LogOp(st, o) == [st EXCEPT !.log = Append(@, o)]

Crash(st) == [st EXCEPT !.ok = FALSE]

RECURSIVE SetToSeq(_)
SetToSeq(S) == IF S = {} THEN <<>>
               ELSE LET x == CHOOSE y \in S : TRUE IN <<x>> \o SetToSeq(S \ {x})

ItemNamesOf(items, t, p) == {k[3] : k \in {x \in DOMAIN items : x[1] = t /\ x[2] = p}}

ButtonClassesOf(buttons, t, p, item) ==
    {k[4] : k \in {x \in DOMAIN buttons : x[1] = t /\ x[2] = p /\ x[3] = item}}

\* create_or_find_pyrevit_panels, the loop over the sorted panels of one tab
RECURSIVE FindOrCreatePanels(_, _, _, _, _)
FindOrCreatePanels(st, t, ps, existing, i) ==
    IF i > Len(ps) THEN st
    ELSE LET p == ps[i].panelName
             st1 == IF p \in existing
                    THEN [st EXCEPT !.regPanels = @ \cup {<<t, p>>},
                                    !.regButtons = Put(@, <<t, p>>, ItemNamesOf(st.items, t, p)),
                                    !.log = Append(@, Op("reuse", "panel", t, p, "", ""))]
                    ELSE [st EXCEPT !.panels = @ \cup {<<t, p>>},
                                    !.regPanels = @ \cup {<<t, p>>},
                                    !.regButtons = Put(@, <<t, p>>, {}),
                                    !.log = Append(@, Op("create", "panel", t, p, "", ""))]
         IN FindOrCreatePanels(st1, t, ps, existing, i + 1)

\* variant: CreateRibbonTab succeeds for a tab that is already on the ribbon
FindOrCreateTab_CreateAgain(st, tab) ==
    LET t == tab.tabName
        st1 == [st EXCEPT !.tabs = @ \cup {t},
                          !.log = Append(@, Op("create", "tab", t, "", "", ""))]
    IN FindOrCreatePanels(st1, t, get_sorted_scriptpanels(tab), {}, 1)

\* one tab of create_or_find_pyrevit_panels: CreateRibbonTab raises when the tab exists
FindOrCreateTab(st, tab) ==
    LET t == tab.tabName
        isnew == t \notin st.tabs
        st1 == IF isnew
               THEN [st EXCEPT !.tabs = @ \cup {t},
                               !.log = Append(@, Op("create", "tab", t, "", "", ""))]
               ELSE LogOp(st, Op("reuse", "tab", t, "", "", ""))
        pyrevitribbonpanels == IF isnew THEN {} ELSE {k[2] : k \in {x \in st.panels : x[1] = t}}
    IN FindOrCreatePanels(st1, t, get_sorted_scriptpanels(tab), pyrevitribbonpanels, 1)

\* variant: the hascommands test is left out
TabIsSetUp_Always(tab) == TRUE

\* create_or_find_pyrevit_panels line 818: only a tab that has commands is set up
TabIsSetUp(tab) == hascommands(tab)

RECURSIVE create_or_find_pyrevit_panels(_, _, _)
create_or_find_pyrevit_panels(st, tabs, i) ==
    IF i > Len(tabs) THEN st
    ELSE create_or_find_pyrevit_panels(
             IF TabIsSetUp(tabs[i]) THEN FindOrCreateTab(st, tabs[i]) ELSE st,
             tabs, i + 1)

\* sessionSettings.reloadScriptsOverrideName as the text createui looks for
reloadScriptsText == "reloadScripts"

\* Python's  part in name  for two strings
IsPartOf(part, name) ==
    \E i \in 1..(Len(name) - Len(part) + 1) : SubSeq(name, i, i + Len(part) - 1) = part

\* createui lines 921-922: the assembly an updated push button is bound to;
\* pushbutton.Name is the class name the button was created with
Rebound(st, key, cls) ==
    IF ~ IsPartOf(reloadScriptsText, cls) THEN st.newAssemblyLocation
    ELSE st.buttons[key].AssemblyName

\* variant: the updated button is read from the dict but not popped from it
UpdateSubButton_NoPop(st, key, cls, t, p, item) ==
    [st EXCEPT !.buttons = Put(@, key, [enabled |-> TRUE, AssemblyName |-> Rebound(st, key, cls)]),
               !.upd = @ + 1,
               !.log = Append(@, Op("update", "button", t, p, item, cls))]

\* createui lines 913-933: an existing push button of a pulldown or split group
UpdateSubButton(st, key, cls, t, p, item) ==
    [st EXCEPT !.buttons = Put(@, key, [enabled |-> TRUE, AssemblyName |-> Rebound(st, key, cls)]),
               !.subdict = @ \ {cls},
               !.upd = @ + 1,
               !.log = Append(@, Op("update", "button", t, p, item, cls))]

\* variant: the buttons still in the dict are disabled after each script, inside the loop
RECURSIVE SubButtons_CleanEach(_, _, _, _, _, _)
SubButtons_CleanEach(st, t, p, item, cmds, i) ==
    IF ~st.ok \/ i > Len(cmds) THEN st
    ELSE LET cls == ClassName(cmds[i])
             key == <<t, p, item, cls>>
             st1 == IF cls \notin st.subdict
                    THEN IF key \in DOMAIN st.buttons
                         THEN Crash(st)
                         ELSE [st EXCEPT !.buttons = Put(@, key, [enabled |-> TRUE,
                                                                        AssemblyName |-> st.newAssemblyLocation]),
                                         !.new = @ + 1,
                                         !.log = Append(@, Op("create", "button", t, p, item, cls))]
                    ELSE UpdateSubButton(st, key, cls, t, p, item)
             ops == SetToSeq(st1.subdict)
             st2 == [st1 EXCEPT
                        !.buttons = [k \in DOMAIN st1.buttons |->
                                        IF k[1] = t /\ k[2] = p /\ k[3] = item /\ k[4] \in st1.subdict
                                        THEN [st1.buttons[k] EXCEPT !.enabled = FALSE]
                                        ELSE st1.buttons[k]],
                        !.log = @ \o [n \in 1..Len(ops) |->
                                         Op("disable", "button", t, p, item, ops[n])]]
         IN SubButtons_CleanEach(IF st1.ok THEN st2 ELSE st1, t, p, item, cmds, i + 1)

\* createui lines 892-933: the scripts of a pulldown or split group
RECURSIVE SubButtons(_, _, _, _, _, _)
SubButtons(st, t, p, item, cmds, i) ==
    IF ~st.ok \/ i > Len(cmds) THEN st
    ELSE LET cls == ClassName(cmds[i])
             key == <<t, p, item, cls>>
             st1 == IF cls \notin st.subdict
                    THEN IF key \in DOMAIN st.buttons
                         THEN Crash(st)      \* AddPushButton: the name is taken
                         ELSE [st EXCEPT !.buttons = Put(@, key, [enabled |-> TRUE,
                                                                        AssemblyName |-> st.newAssemblyLocation]),
                                         !.new = @ + 1,
                                         !.log = Append(@, Op("create", "button", t, p, item, cls))]
                    ELSE UpdateSubButton(st, key, cls, t, p, item)
         IN SubButtons(st1, t, p, item, cmds, i + 1)

\* createui lines 934-936
DisableOrphanButtons(st, t, p, item) ==
    LET orphans == st.subdict
        ops == SetToSeq(orphans)
    IN [st EXCEPT !.buttons = [k \in DOMAIN st.buttons |->
                                  IF k[1] = t /\ k[2] = p /\ k[3] = item /\ k[4] \in orphans
                                  THEN [st.buttons[k] EXCEPT !.enabled = FALSE] ELSE st.buttons[k]],
                  !.subdict = {},
                  !.log = @ \o [n \in 1..Len(ops) |-> Op("disable", "button", t, p, item, ops[n])]]

\* createui lines 856-889: the ribbon item of a pulldown, split or split-push group
GroupItemKind(g) == IF g.groupType = pulldownButtonTypeName THEN "PulldownButton" ELSE "SplitButton"

UpdateGroupItem(st, key, g, t, p) ==
    [st EXCEPT !.dict = @ \ {g.groupName},
               !.subdict = ButtonClassesOf(st.buttons, t, p, g.groupName),
               !.log = Append(@, Op("update", "item", t, p, g.groupName, ""))]

GroupButton(st, t, p, g) ==
    LET name == g.groupName
        key == <<t, p, name>>
        st1 == IF name \notin st.dict
               THEN IF key \in DOMAIN st.items
                    THEN Crash(st)          \* AddItem: the name is taken
                    ELSE [st EXCEPT !.items = Put(@, key, [kind |-> GroupItemKind(g), enabled |-> TRUE]),
                                    !.subdict = {},
                                    !.log = Append(@, Op("create", "item", t, p, name, ""))]
               ELSE IF st.items[key].kind = "PushButton"
                    THEN Crash([st EXCEPT !.dict = @ \ {name}])   \* PushButton has no GetItems
                    ELSE IF g.groupType = splitPushButtonTypeName /\ st.items[key].kind # "SplitButton"
                    THEN Crash([st EXCEPT !.dict = @ \ {name}])   \* no IsSynchronizedWithCurrentItem
                    ELSE UpdateGroupItem(st, key, g, t, p)
        st2 == SubButtons(st1, t, p, name, g.commands, 1)
    IN IF st2.ok THEN DisableOrphanButtons(st2, t, p, name) ELSE st2

\* createui lines 938-969: Stack3
RECURSIVE StackCommands(_, _, _, _, _)
StackCommands(st, t, p, cmds, i) ==
    IF ~st.ok \/ i > Len(cmds) THEN st
    ELSE LET cls == ClassName(cmds[i])
             key == <<t, p, cls>>
             st1 == IF cls \notin st.dict
                    THEN [st EXCEPT !.stack = Append(@, cls), !.new = @ + 1]
                    ELSE IF st.items[key].kind # "PushButton"
                         THEN Crash([st EXCEPT !.dict = @ \ {cls}])  \* no AssemblyName to set
                         ELSE [st EXCEPT !.dict = @ \ {cls},
                                         !.items = Put(@, key, [kind |-> "PushButton", enabled |-> TRUE]),
                                         !.upd = @ + 1,
                                         !.log = Append(@, Op("update", "item", t, p, cls, ""))]
         IN StackCommands(st1, t, p, cmds, i + 1)

StackIsComplete(stack) == Len(stack) = 3

AddStackedItems(st, t, p) ==
    IF \E n \in 1..Len(st.stack) : <<t, p, st.stack[n]>> \in DOMAIN st.items
    THEN Crash(st)
    ELSE [st EXCEPT !.items = [k \in {<<t, p, st.stack[n]>> : n \in 1..Len(st.stack)} |->
                                   [kind |-> "PushButton", enabled |-> TRUE]] @@ @,
                    !.log = @ \o [n \in 1..Len(st.stack) |-> Op("create", "item", t, p, st.stack[n], "")]]

StackedThree(st, t, p, g) ==
    LET st1 == StackCommands([st EXCEPT !.stack = <<>>], t, p, g.commands, 1)
    IN IF st1.ok /\ StackIsComplete(st1.stack) THEN AddStackedItems(st1, t, p) ELSE st1

\* createui lines 971-1028: PushButton and SmartButton; the body runs inside try/except
SingleButton(st, t, p, g) ==
    IF Len(g.commands) = 0 THEN st          \* pop from an empty list: caught, continue
    ELSE LET cls == ClassName(Last(g.commands))
             key == <<t, p, cls>>
             st1 == [st EXCEPT !.popped = @ \cup {<<t, p, g.groupName>>}]
         IN IF cls \notin st1.dict
            THEN IF key \in DOMAIN st1.items
                 THEN st1                    \* AddItem raises: caught, continue
                 ELSE [st1 EXCEPT !.items = Put(@, key, [kind |-> "PushButton", enabled |-> TRUE]),
                                  !.new = @ + 1,
                                  !.log = Append(@, Op("create", "item", t, p, cls, ""))]
            ELSE IF st1.items[key].kind # "PushButton"
                 THEN [st1 EXCEPT !.dict = @ \ {cls}]    \* AttributeError: caught, continue
                 ELSE [st1 EXCEPT !.dict = @ \ {cls},
                                  !.items = Put(@, key, [kind |-> "PushButton", enabled |-> TRUE]),
                                  !.upd = @ + 1,
                                  !.log = Append(@, Op("update", "item", t, p, cls, ""))]

\* createui lines 1030-1047: button bound to a class of another assembly
LinkButton(st, t, p, g) ==
    LET name == g.groupName
        key == <<t, p, name>>
    IN IF name \notin st.dict
       THEN IF key \in DOMAIN st.items
            THEN Crash(st)
            ELSE [st EXCEPT !.items = Put(@, key, [kind |-> "PushButton", enabled |-> TRUE]),
                            !.new = @ + 1,
                            !.log = Append(@, Op("create", "item", t, p, name, ""))]
       ELSE IF st.items[key].kind # "PushButton"
            THEN Crash([st EXCEPT !.dict = @ \ {name}])
            ELSE [st EXCEPT !.dict = @ \ {name},
                            !.items = Put(@, key, [kind |-> "PushButton", enabled |-> TRUE]),
                            !.upd = @ + 1,
                            !.log = Append(@, Op("update", "item", t, p, name, ""))]

\* createui lines 851-1047: the if/elif chain over scriptGroup.groupType
RibbonItemFor(st, t, p, g) ==
    IF g.groupType \in {pulldownButtonTypeName, splitButtonTypeName, splitPushButtonTypeName}
    THEN GroupButton(st, t, p, g)
    ELSE IF g.groupType = stackedThreeTypeName
    THEN StackedThree(st, t, p, g)
    ELSE IF g.groupType = pushButtonTypeName /\ ~islinkbutton(g)
    THEN SingleButton(st, t, p, g)
    ELSE IF g.groupType = smartButtonTypeName /\ ~islinkbutton(g)
    THEN SingleButton(st, t, p, g)
    ELSE IF g.groupType = linkButtonTypeName /\ islinkbutton(g)
    THEN LinkButton(st, t, p, g)
    ELSE st

RECURSIVE RibbonItems(_, _, _, _, _)
RibbonItems(st, t, p, gs, i) ==
    IF ~st.ok \/ i > Len(gs) THEN st
    ELSE RibbonItems(RibbonItemFor(st, t, p, gs[i]), t, p, gs, i + 1)

\* variant: the items left in the dict are taken off the panel
DisableOrphanItems_Remove(st, t, p) ==
    LET orphans == st.dict
        ops == SetToSeq(orphans)
        kept == {k \in DOMAIN st.items : ~(k[1] = t /\ k[2] = p /\ k[3] \in orphans)}
    IN [st EXCEPT !.items = [k \in kept |-> st.items[k]],
                  !.dict = {},
                  !.log = @ \o [n \in 1..Len(ops) |-> Op("disable", "item", t, p, ops[n], "")]]

\* createui lines 1049-1052
DisableOrphanItems(st, t, p) ==
    LET orphans == st.dict
        ops == SetToSeq(orphans)
    IN [st EXCEPT !.items = [k \in DOMAIN st.items |->
                                IF k[1] = t /\ k[2] = p /\ k[3] \in orphans
                                THEN [st.items[k] EXCEPT !.enabled = FALSE] ELSE st.items[k]],
                  !.dict = {},
                  !.log = @ \o [n \in 1..Len(ops) |-> Op("disable", "item", t, p, ops[n], "")]]

\* createui lines 847-1052: one panel; pyRevitUIPanels[panelName] raises KeyError
\* for a panel that create_or_find_pyrevit_panels did not register
PanelUI(st, t, panel) ==
    LET p == panel.panelName
    IN IF <<t, p>> \notin st.regPanels THEN Crash(st)
       ELSE LET st1 == RibbonItems([st EXCEPT !.dict = st.regButtons[<<t, p>>]],
                                   t, p, get_sorted_scriptgroups(panel), 1)
            IN IF st1.ok THEN DisableOrphanItems(st1, t, p) ELSE st1

RECURSIVE PanelsUI(_, _, _, _)
PanelsUI(st, t, ps, i) ==
    IF ~st.ok \/ i > Len(ps) THEN st
    ELSE PanelsUI(PanelUI(st, t, ps[i]), t, ps, i + 1)

RECURSIVE createui(_, _, _)
createui(st, tabs, i) ==
    IF ~st.ok \/ i > Len(tabs) THEN st
    ELSE createui(PanelsUI(st, tabs[i].tabName, get_sorted_scriptpanels(tabs[i]), 1), tabs, i + 1)

\* createpyrevitui
createpyrevitui(st, tabs) == createui(create_or_find_pyrevit_panels(st, tabs, 1), tabs, 1)

----------------------------------------------------------------------------
(* Desired trees a reload may find on disk *)

CmdNames == <<"a", "b", "c", "d", "e">>

\* the first n scripts of group g in tab t
Scripts(t, g, n) == [i \in 1..n |-> CommandNode(t, g, CmdNames[i])]

GroupNode(name, type, order, cmds, asm) ==
    [groupName |-> name, groupType |-> type, groupOrder |-> order,
     commands |-> cmds, assemblyName |-> asm]

PanelNode(name, order, groups) ==
    [panelName |-> name, panelOrder |-> order, scriptGroups |-> groups]

TabNode(name, panels) == [tabName |-> name, scriptPanels |-> panels]

GroupsOf(t) ==
    {GroupNode("G1", pulldownButtonTypeName, 10, Scripts(t, "G1", n), "None") : n \in 0..MaxCmds}
    \cup {GroupNode("G1", ty, 10, Scripts(t, "G1", 1), "None") :
             ty \in {splitButtonTypeName, splitPushButtonTypeName, smartButtonTypeName}}
    \cup {GroupNode("G1", stackedThreeTypeName, 10, Scripts(t, "G1", n), "None") : n \in 2..MaxCmds}
    \cup {GroupNode("G1", stackedTwoTypeName, 10, Scripts(t, "G1", 2), "None")}
    \cup {GroupNode("G1", pushButtonTypeName, 10, Scripts(t, "G1", n), "None") : n \in 0..1}
    \cup {GroupNode("G1", linkButtonTypeName, 10, <<>>, "Acme")}
    \cup {GroupNode("G2", pulldownButtonTypeName, 10, Scripts(t, "G2", 1), "None")}

MainTab(g) == TabNode("T1", <<PanelNode("P1", 10, <<g>>)>>)

TwoPanelTab(g) ==
    TabNode("T1", <<PanelNode("P2", 20, <<GroupNode("G1", pulldownButtonTypeName, 10,
                                                           Scripts("T1", "G1", 1), "None")>>),
                      PanelNode("P1", 10, <<g>>)>>)

\* two bundled panels: ScriptPanel gives every bundled panel the order 0;
\* P2.panel was listed before P1.panel
BundledPanelsTab(g) ==
    TabNode("T1", <<PanelNode("P2", 0, <<GroupNode("G1", pulldownButtonTypeName, 10,
                                                          Scripts("T1", "G1", 1), "None")>>),
                      PanelNode("P1", 0, <<g>>)>>)

EmptyTab == TabNode("T2", <<>>)

NoScriptTab ==
    TabNode("T2", <<PanelNode("P1", 10, <<GroupNode("G1", pulldownButtonTypeName, 10, <<>>, "None")>>)>>)

OtherTab ==
    TabNode("T2", <<PanelNode("P1", 10, <<GroupNode("G1", pushButtonTypeName, 10,
                                                          Scripts("T2", "G1", 1), "None")>>)>>)

\* the master tab with the reload command (the __init__ script under its
\* override name), beside a tab with a script whose name holds that name
ReloadTab ==
    TabNode("master", <<PanelNode("P1", 10, <<GroupNode("pyRevit", pulldownButtonTypeName, 10,
                            <<CommandNode("master", "pyRevit", "reloadScripts")>>, "None")>>)>>)

LogGroup ==
    GroupNode("G1", pulldownButtonTypeName, 10, <<CommandNode("T1", "G1", "reloadScriptsLog")>>, "None")

\* groups that accompany a second panel or a second tab
PlainGroups(t) ==
    {GroupNode("G1", pulldownButtonTypeName, 10, Scripts(t, "G1", 1), "None")}

DesiredTrees ==
    {<<MainTab(g)>> : g \in GroupsOf("T1")}
    \cup UNION {{ <<TwoPanelTab(g)>>, <<BundledPanelsTab(g)>>, <<EmptyTab, MainTab(g)>>, <<NoScriptTab, MainTab(g)>>,
                  <<MainTab(g), NoScriptTab>>, <<MainTab(g), OtherTab>> }
                : g \in PlainGroups("T1")}
    \cup {<<ReloadTab, MainTab(LogGroup)>>}

----------------------------------------------------------------------------
(* SpecUI: reloads of one Revit process *)

NoPass == [n |-> 0, desired |-> <<>>, after |-> <<>>, log |-> <<>>, new |-> 0, upd |-> 0,
           status |-> "none",
           before |-> [tabs |-> {}, panels |-> {}, items |-> EmptyMap, buttons |-> EmptyMap]]

StartOfPass ==
    [tabs |-> uiTabs, panels |-> uiPanels, items |-> uiItems, buttons |-> uiButtons,
     regPanels |-> {}, regButtons |-> EmptyMap, dict |-> {}, subdict |-> {}, stack |-> <<>>,
     popped |-> {}, new |-> 0, upd |-> 0, ok |-> TRUE, log |-> <<>>,
     newAssemblyLocation |-> pass.n + 1]

\* the tree as createui leaves it: commands.pop() shortened the popped groups
GroupAfter(t, p, g, popped) ==
    IF <<t, p, g.groupName>> \in popped THEN [g EXCEPT !.commands = Front(g.commands)] ELSE g

PanelAfter(t, panel, popped) ==
    [panel EXCEPT !.scriptGroups =
        [gi \in 1..Len(panel.scriptGroups) |->
            GroupAfter(t, panel.panelName, panel.scriptGroups[gi], popped)]]

TabAfter(tab, popped) ==
    [tab EXCEPT !.scriptPanels =
        [pi \in 1..Len(tab.scriptPanels) |-> PanelAfter(tab.tabName, tab.scriptPanels[pi], popped)]]

TreeAfter(tabs, popped) == [ti \in 1..Len(tabs) |-> TabAfter(tabs[ti], popped)]

\* The ribbon of a Revit process that has not loaded pyRevit yet
IdleUI ==
    /\ uiTabs = {}
    /\ uiPanels = {}
    /\ uiItems = EmptyMap
    /\ uiButtons = EmptyMap
    /\ pass = NoPass
    /\ prev = NoPass

\* Nothing walked, cached or loaded yet
IdleDisc ==
    /\ searchdir = <<>> /\ found = [status |-> "idle"]
    /\ homeDir = <<>> /\ loaderDir = <<>> /\ session = [status |-> "idle"]

\* a tab folder whose entries all have modification time 0
IdleTimes == [e \in {"T1.tab", "T1.tab/P1.panel", "G1_a.py", "G1_a.png"} |-> 0]

IdleCache ==
    /\ disk = IdleTimes
    /\ cacheFile = [kind |-> "missing", text |-> <<>>, readonly |-> FALSE]
    /\ version = "v1"
    /\ tabObj = [state |-> "none"]
    /\ outcome = [op |-> "none", exc |-> "none", before |-> [state |-> "none"],
                  snapshot |-> [exc |-> "none", dict |-> <<>>], fresh |-> [valid |-> FALSE],
                  since |-> {"no store"}]

IdleElements == panelDir = <<>> /\ panelObj = [status |-> "idle"]

IdleRoots == tabRoots = <<>> /\ tempDir = <<>> /\ call = [op |-> "none"]

IdlePkgs == ribbon = <<>> /\ reconciled = [n |-> 0]

IdleLoad == installed = <<>> /\ env = <<>> /\ loaded = [status |-> "idle"] /\ IdleElements /\ IdleRoots /\ IdlePkgs

InitUI == IdleUI /\ IdleDisc /\ IdleCache /\ IdleLoad

\* PyRevitUISession.__init__ ... createpyrevitui, for the tree found on disk
Reload(tree) ==
    /\ pass.n < MaxPasses
    /\ LET st == createpyrevitui(StartOfPass, tree)
       IN /\ uiTabs' = st.tabs
          /\ uiPanels' = st.panels
          /\ uiItems' = st.items
          /\ uiButtons' = st.buttons
          /\ pass' = [n |-> pass.n + 1, desired |-> tree, after |-> TreeAfter(tree, st.popped),
                      log |-> st.log, new |-> st.new, upd |-> st.upd,
                      status |-> IF st.ok THEN "done" ELSE "crashed",
                      before |-> [tabs |-> uiTabs, panels |-> uiPanels,
                                  items |-> uiItems, buttons |-> uiButtons]]
          /\ prev' = pass
          /\ UNCHANGED <<discVars, cacheVars, loadVars>>

NextUI == \E tree \in DesiredTrees : Reload(tree)

SpecUI == InitUI /\ [][NextUI]_vars

----------------------------------------------------------------------------
(* Reading a pass: counts over the operation log and over the desired tree *)

CountOps(log, ops) == Cardinality({i \in DOMAIN log : log[i].op \in ops})

Creates(p) == CountOps(p.log, {"create"})

\* a visited element that already existed: found and reused, or rewritten
Updates(p) == CountOps(p.log, {"update", "reuse"})

Disables(p) == CountOps(p.log, {"disable"})

\* ribbon elements one group stands for
ElementsOfGroup(g) ==
    IF g.groupType \in {pulldownButtonTypeName, splitButtonTypeName, splitPushButtonTypeName}
    THEN 1 + Len(g.commands)
    ELSE IF g.groupType \in {stackedThreeTypeName, stackedTwoTypeName}
    THEN Len(g.commands)
    ELSE IF islinkbutton(g) THEN 1
    ELSE IF Len(g.commands) > 0 THEN 1 ELSE 0

RECURSIVE SumSeq(_)
SumSeq(s) == IF s = <<>> THEN 0 ELSE s[1] + SumSeq(Tail(s))

ElementsOfPanel(panel) ==
    1 + SumSeq([i \in 1..Len(panel.scriptGroups) |-> ElementsOfGroup(panel.scriptGroups[i])])

ElementsOfTab(tab) ==
    IF hascommands(tab)
    THEN 1 + SumSeq([i \in 1..Len(tab.scriptPanels) |-> ElementsOfPanel(tab.scriptPanels[i])])
    ELSE 0

\* N: the elements of the desired tree, tabs without commands left out
DesiredCount(tabs) == SumSeq([i \in 1..Len(tabs) |-> ElementsOfTab(tabs[i])])

RibbonIsEmpty(ui) == ui.tabs = {} /\ ui.panels = {} /\ DOMAIN ui.items = {} /\ DOMAIN ui.buttons = {}

CommandlessTabs(tabs) == {tabs[i].tabName : i \in {j \in 1..Len(tabs) : ~hascommands(tabs[j])}}

\* the desired groups of panel p of tab t
DesiredGroups(tabs, t, p) ==
    UNION {SeqToSet(tabs[i].scriptPanels[j].scriptGroups) :
              <<i, j>> \in {x \in (1..Len(tabs)) \X (1..MaxCmds + 2) :
                               /\ x[2] <= Len(tabs[x[1]].scriptPanels)
                               /\ tabs[x[1]].tabName = t
                               /\ tabs[x[1]].scriptPanels[x[2]].panelName = p}}

\* the desired tree has a Command for sub-button k = <<tab, panel, item, className>>
SubButtonDesired(tabs, k) ==
    \E g \in DesiredGroups(tabs, k[1], k[2]) :
        /\ g.groupName = k[3]
        /\ \E n \in 1..Len(g.commands) : ClassName(g.commands[n]) = k[4]

----------------------------------------------------------------------------
(* C1: from an empty ribbon one pass creates each of the N desired elements *)
(* once and disables nothing; the next pass over the same tree creates      *)
(* nothing, updates N elements and disables nothing.                        *)
C1_CreateThenUpdate ==
    /\ (pass.n >= 1 /\ RibbonIsEmpty(pass.before))
          => (Creates(pass) = DesiredCount(pass.desired) /\ Disables(pass) = 0)
    /\ (pass.n >= 2 /\ RibbonIsEmpty(prev.before) /\ prev.desired = pass.desired)
          => (Creates(pass) = 0 /\ Updates(pass) = DesiredCount(pass.desired) /\ Disables(pass) = 0)

(* C2: whatever the ribbon held at first, the second of two passes over the *)
(* same desired tree creates nothing and disables no orphan.                *)
C2_SecondPassQuiet ==
    (pass.n >= 2 /\ prev.desired = pass.desired)
        => (Creates(pass) = 0 /\ Disables(pass) = 0)

\* the element a disable operation names was disabled before the pass
DisabledBefore(o) ==
    IF o.level = "button"
    THEN /\ <<o.tab, o.panel, o.item, o.button>> \in DOMAIN pass.before.buttons
         /\ ~pass.before.buttons[<<o.tab, o.panel, o.item, o.button>>].enabled
    ELSE /\ <<o.tab, o.panel, o.item>> \in DOMAIN pass.before.items
         /\ ~pass.before.items[<<o.tab, o.panel, o.item>>].enabled

(* C2, amended: the second of two passes over the same desired tree creates *)
(* nothing and leaves the elements of the ribbon and their enabled state as *)
(* it found them (an updated push button is bound to the new assembly); the *)
(* orphans are disabled again, each already disabled by the pass before.    *)
C2_SecondPassChangesNothing ==
    (pass.n >= 2 /\ prev.desired = pass.desired) =>
        /\ Creates(pass) = 0
        /\ uiTabs = pass.before.tabs
        /\ uiPanels = pass.before.panels
        /\ uiItems = pass.before.items
        /\ DOMAIN uiButtons = DOMAIN pass.before.buttons
        /\ \A k \in DOMAIN uiButtons : uiButtons[k].enabled = pass.before.buttons[k].enabled
        /\ Disables(pass) = Disables(prev)
        /\ \A i \in DOMAIN pass.log : pass.log[i].op = "disable" => DisabledBefore(pass.log[i])

C2_Witness ==
    /\ pass.n >= 2
    /\ prev.desired = pass.desired
    /\ pass.status = "done"
    /\ Updates(pass) > 0
    /\ Disables(pass) > 0

(* C3: a button of the ribbon that has no Command in the desired tree is    *)
(* disabled exactly once by a pass and still exists after it.               *)
C3_OrphanDisabledOnce ==
    pass.n >= 1 =>
        \A k \in DOMAIN pass.before.buttons :
            ~SubButtonDesired(pass.desired, k) =>
                /\ Cardinality({i \in DOMAIN pass.log :
                                   /\ pass.log[i].op = "disable"
                                   /\ <<pass.log[i].tab, pass.log[i].panel,
                                        pass.log[i].item, pass.log[i].button>> = k}) = 1
                /\ k \in DOMAIN uiButtons

(* C4: a pass logs no operation on a tab whose subtree has no command.      *)
C4_CommandlessTabUntouched ==
    \A i \in DOMAIN pass.log : pass.log[i].tab \notin CommandlessTabs(pass.desired)

C4_Witness ==
    /\ pass.status = "done"
    /\ pass.log # <<>>
    /\ CommandlessTabs(pass.desired) \cap pass.before.tabs # {}

----------------------------------------------------------------------------
(* Directory walk: file names, ScriptCommand, ScriptGroup, find_scriptgroups *)

MaxFiles == 2           \* files of the searched folder

\* A file name is a sequence of symbols: digits one character each, the
\* delimiter "_", and words (letters, possibly followed by digits) that no
\* slice of the code cuts and that str.isdigit rejects.
Digits == {"0", "1", "5"}

DigitVal == ("0" :> 0) @@ ("1" :> 1) @@ ("5" :> 5)

None == <<"None">>

\* str.isdigit(): non-empty and digits only
isdigit(s) == Len(s) > 0 /\ \A i \in 1..Len(s) : s[i] \in Digits

\* s[from:to]
Slice(s, from, to) == SubSeq(s, from + 1, IF to < Len(s) THEN to ELSE Len(s))

\* '_'.join(tokens): how the file names of the folder are written
RECURSIVE Name(_)
Name(tokens) == IF Len(tokens) = 1 THEN tokens[1]
                ELSE tokens[1] \o <<"_">> \o Name(Tail(tokens))

\* fname.rsplit('_')
RECURSIVE rsplit(_)
rsplit(s) ==
    IF \A i \in 1..Len(s) : s[i] # "_" THEN <<s>>
    ELSE LET i == CHOOSE k \in 1..Len(s) : s[k] = "_" /\ \A j \in 1..(k - 1) : s[j] # "_"
         IN <<SubSeq(s, 1, i - 1)>> \o rsplit(SubSeq(s, i + 1, Len(s)))

RECURSIVE DecimalValue(_)
DecimalValue(s) == IF s = <<>> THEN 0 ELSE 10 * DecimalValue(Front(s)) + DigitVal[Last(s)]

\* int(s): ValueError for the empty string and for anything but digits
int(s) == IF isdigit(s) THEN [exc |-> "none", val |-> DecimalValue(s)]
          ELSE [exc |-> "ValueError", val |-> 0]

iconFileFormat == ".png"

\* AppDomain.CurrentDomain.GetAssemblies(), by name
LoadedAssemblies == {<<"Acme">>}

File(tokens, fext, readable, sortkey) ==
    [fname |-> Name(tokens), fext |-> fext, readable |-> readable, sortkey |-> sortkey]

\* A folder entry that is itself a folder, with its own listing
Dir(tokens, fext, entries, sortkey) ==
    [fname |-> Name(tokens), fext |-> fext, readable |-> TRUE, sortkey |-> sortkey,
     entries |-> entries]

\* op.isdir
isdir(e) == "entries" \in DOMAIN e

\* The files a folder may hold, in the order sorted() gives them (sortkey)
FileNames ==
    { File(<<<<"1", "0">>>>, ".png", TRUE, 0),
      File(<<<<"1", "0", "0", "5">>, <<"P1">>, <<"PulldownButton">>, <<"G1">>>>, ".png", TRUE, 1),
      File(<<<<"1", "0", "0", "5">>, <<"P1">>, <<"PushButton">>, <<"G2">>, <<"Acme">>, <<"Cls">>>>,
           ".png", TRUE, 2),
      File(<<<<"1", "0", "0", "5">>, <<"P1">>, <<"PushButton">>, <<"G2">>, <<"Zed">>, <<"Cls">>>>,
           ".png", TRUE, 3),
      File(<<<<"1", "0">>, <<"P1">>, <<"PulldownButton">>, <<"G1">>>>, ".png", TRUE, 4),
      File(<<<<"1", "0">>, <<"P1">>, <<"PulldownButton">>, <<"G1">>, <<"x">>>>, ".png", TRUE, 5),
      File(<<<<"1", "0">>, <<"PulldownButton">>, <<"G1">>>>, ".png", TRUE, 6),
      File(<<<<"1", "0">>, <<"x">>>>, ".png", TRUE, 7),
      File(<<<<"1", "0", "x">>, <<"PulldownButton">>, <<"G1">>>>, ".png", TRUE, 8),
      File(<<<<"1">>, <<"PulldownButton">>, <<"G1">>>>, ".png", TRUE, 9),
      File(<<<<"G1">>>>, ".py", TRUE, 10),
      File(<<<<"G1">>, <<"a">>>>, ".png", TRUE, 11),
      File(<<<<"G1">>, <<"a">>>>, ".py", TRUE, 12),
      File(<<<<"G1">>, <<"a">>, <<"b">>>>, ".py", TRUE, 13),
      File(<<<<"G1">>, <<"b">>>>, ".py", FALSE, 14),
      File(<<<<>>, <<"G1">>, <<"c">>>>, ".py", TRUE, 15) }

\* ScriptGroup.isdescriptorfile
isdescriptorfile(fname, fext) == iconFileFormat = fext /\ isdigit(Slice(fname, 0, 2))

\* ScriptGroup.__init__: the object built, or the exception that leaves it
ScriptGroup(f, tabname, bundledPanelName) ==
    LET namepieces == rsplit(f.fname)
        n == Len(namepieces)
        blank == [commands |-> <<>>, sourceFile |-> f, groupOrder |-> 0,
                  panelName |-> bundledPanelName, groupType |-> None, groupName |-> <<>>,
                  assemblyName |-> None, tabName |-> tabname]
        order == IF n \in {4, 6} THEN int(Slice(namepieces[1], 2, Len(namepieces[1])))
                 ELSE IF n = 3 THEN int(namepieces[1])
                 ELSE [exc |-> "none", val |-> 0]
        named == IF n \in {4, 6}
                 THEN [blank EXCEPT !.groupOrder = order.val, !.panelName = namepieces[2],
                                    !.groupType = namepieces[3], !.groupName = namepieces[4]]
                 ELSE IF n = 3
                 THEN [blank EXCEPT !.groupOrder = order.val, !.groupType = namepieces[2],
                                    !.groupName = namepieces[3]]
                 ELSE blank
    IN IF ~ isdescriptorfile(f.fname, f.fext)
       THEN [exc |-> "UnknownFileNameFormat", obj |-> blank]
       ELSE IF ~ isdigit(namepieces[1]) THEN [exc |-> "none", obj |-> blank]
       ELSE IF order.exc # "none" THEN [exc |-> order.exc, obj |-> blank]
       ELSE IF n = 6 /\ namepieces[5] \notin LoadedAssemblies
       THEN [exc |-> "UnknownAssembly", obj |-> blank]
       ELSE IF n = 6 THEN [exc |-> "none", obj |-> [named EXCEPT !.assemblyName = namepieces[5]]]
       ELSE [exc |-> "none", obj |-> named]

\* x in s, for strings
Contains(s, x) == \E i \in 0..(Len(s) - Len(x)) : SubSeq(s, i + 1, i + Len(x)) = x

pyRevitInitScriptName == <<"_", "_", "init", "_", "_">>
reloadScriptsOverrideGroupName == <<"pyRevit">>
reloadScriptsOverrideName == <<"reloadScripts">>

\* ScriptCommand.__init__: the object built, or the exception that leaves it
ScriptCommand(f, tabname) ==
    LET fname == IF Contains(f.fname, pyRevitInitScriptName) /\ tabname = <<masterTabName>>
                 THEN reloadScriptsOverrideGroupName \o <<"_">> \o reloadScriptsOverrideName
                 ELSE f.fname
        namepieces == rsplit(fname)
        obj == [fileName |-> f, tabName |-> tabname,
                scriptGroupName |-> namepieces[1],
                cmdName |-> IF Len(namepieces) = 2 THEN namepieces[2] ELSE <<>>]
    IN IF fname[1] = "_" \/ f.fext # ".py" THEN [exc |-> "UnknownFileNameFormat", obj |-> obj]
       ELSE IF Len(namepieces) # 2 THEN [exc |-> "UnknownFileNameFormat", obj |-> obj]
       ELSE IF ~ f.readable THEN [exc |-> "IOError", obj |-> obj]
       ELSE [exc |-> "none", obj |-> obj]

\* ScriptGroup.adoptcommands: already_adopted_commands is read once, before the loop
adoptcommands(group, pyrevitscriptcommands) ==
    LET already == {group.commands[i].fileName : i \in 1..Len(group.commands)}
        Mine(cmd) == /\ cmd.scriptGroupName = group.groupName
                     /\ (cmd.tabName = group.tabName \/ cmd.tabName = <<masterTabName>>)
                     /\ cmd.fileName \notin already
    IN [group EXCEPT !.commands = @ \o SelectSeq(pyrevitscriptcommands, Mine)]

\* find_scriptcommands: every exception of ScriptCommand skips the file.
\* (In the loops of the walk, CHOOSE over a one-element set fixes the value of
\* a step before the loop goes on with it.)
RECURSIVE CommandsFrom(_, _, _)
CommandsFrom(files, tabname, acc) ==
    IF files = <<>> THEN acc
    ELSE LET r == ScriptCommand(files[1], tabname)
             next == IF ~ isdir(files[1]) /\ files[1].fext = ".py" /\ r.exc = "none"
                     THEN Append(acc, r.obj) ELSE acc
         IN CHOOSE out \in {CommandsFrom(Tail(files), tabname, a) : a \in {next}} : TRUE

find_scriptcommands(files, tabname, pyRevitScriptCommands) ==
    CommandsFrom(StableSort(files, [i \in 1..Len(files) |-> files[i].sortkey]),
                 tabname, pyRevitScriptCommands)

\* variant: the loop has no except clause for UnknownAssembly
RECURSIVE GroupsFrom_AssemblyNotCaught(_, _, _, _)
GroupsFrom_AssemblyNotCaught(files, tabname, bundledPanelName, acc) ==
    IF files = <<>> \/ acc.status = "raised" THEN acc
    ELSE LET r == ScriptGroup(files[1], tabname, bundledPanelName)
             next == IF isdir(files[1]) \/ files[1].fext # iconFileFormat THEN acc
                     ELSE IF r.exc = "none"
                     THEN [acc EXCEPT !.groups = Append(@, adoptcommands(r.obj, acc.commands))]
                     ELSE IF r.exc = "UnknownFileNameFormat" THEN acc
                     ELSE [acc EXCEPT !.status = "raised", !.exc = r.exc]
         IN CHOOSE out \in {GroupsFrom_AssemblyNotCaught(Tail(files), tabname, bundledPanelName, a) :
                                a \in {next}} : TRUE

\* find_scriptgroups, the loop: only UnknownFileNameFormat and UnknownAssembly are caught
RECURSIVE GroupsFrom(_, _, _, _)
GroupsFrom(files, tabname, bundledPanelName, acc) ==
    IF files = <<>> \/ acc.status = "raised" THEN acc
    ELSE LET r == ScriptGroup(files[1], tabname, bundledPanelName)
             next == IF isdir(files[1]) \/ files[1].fext # iconFileFormat THEN acc
                     ELSE IF r.exc = "none"
                     THEN [acc EXCEPT !.groups = Append(@, adoptcommands(r.obj, acc.commands))]
                     ELSE IF r.exc \in {"UnknownFileNameFormat", "UnknownAssembly"} THEN acc
                     ELSE [acc EXCEPT !.status = "raised", !.exc = r.exc]
         IN CHOOSE out \in {GroupsFrom(Tail(files), tabname, bundledPanelName, a) :
                                a \in {next}} : TRUE

\* PyRevitUISession.__init__ lines 493-496: the lists of a new session
NewSession ==
    [status |-> "done", exc |-> "none", commands |-> <<>>, groups |-> <<>>,
     panels |-> <<>>, tabs |-> <<>>]

\* find_scriptgroups: the scripts of the folder join pyRevitScriptCommands first
find_scriptgroups(self, files, tabname, bundledPanelName) ==
    CHOOSE out \in {GroupsFrom(files, tabname, bundledPanelName, a) :
                       a \in {[self EXCEPT !.commands = find_scriptcommands(files, tabname, @)]}} :
        TRUE

\* os.listdir(searchdir): distinct files in any order
Listings ==
    {s \in UNION {[1..n -> FileNames] : n \in 0..MaxFiles} :
        \A i, j \in 1..Len(s) : i # j => s[i] # s[j]}

InitDisc ==
    /\ IdleUI /\ IdleCache /\ IdleLoad
    /\ searchdir \in Listings
    /\ found = [status |-> "idle"]
    /\ homeDir = <<>> /\ loaderDir = <<>> /\ session = [status |-> "idle"]

\* One walk of the folder of tab T1
Walk ==
    /\ found.status = "idle"
    /\ found' = find_scriptgroups(NewSession, searchdir, <<"T1">>, <<>>)
    /\ UNCHANGED <<searchdir, homeDir, loaderDir, session, uiVars, cacheVars, loadVars>>

NextDisc == Walk

SpecDisc == InitDisc /\ [][NextDisc]_vars

\* C6: the walk of a folder never raises because of one malformed file name (bad
\* token count, bad order token, unresolved assembly, unreadable script); the
\* malformed entry is left out of the groups and every well-formed descriptor of
\* the folder is discovered.
C6_MalformedEntryLeftOut ==
    found.status # "idle" =>
        /\ found.status = "done"
        /\ \A i \in 1..Len(found.groups) :
              found.groups[i].groupName # <<>> /\ found.groups[i].groupType # None
        /\ \A i \in 1..Len(searchdir) :
              LET p == rsplit(searchdir[i].fname)
              IN (/\ searchdir[i].fext = iconFileFormat
                  /\ Len(p) \in {3, 4, 6}
                  /\ isdigit(p[1])
                  /\ (Len(p) = 6 => p[5] \in LoadedAssemblies))
                 => \E k \in 1..Len(found.groups) : found.groups[k].sourceFile = searchdir[i]

----------------------------------------------------------------------------
(* Content-hash cache of one tab: Lib/pyRevit/_cache.py *)

MaxTime == 1            \* modification times run from 0 to MaxTime

Versions == {"v1", "v2"}

\* os.walk(self.tabFolder): the tab folder and its panel folder with a script and its icon
os_walk == << [root |-> "T1.tab", files |-> <<>>],
              [root |-> "T1.tab/P1.panel", files |-> <<"G1_a.py", "G1_a.png">>] >>

\* re.search(r'(\.panel)|(\.tab)', root) and re.search(r'(\.py)', filename)
re_search_pat(root) == root \in {"T1.tab", "T1.tab/P1.panel"}

re_search_patfile(filename) == filename \in {"G1_a.py"}

\* variant: only the folders are summed, the files are not
calculate_hash_FoldersOnly(d) ==
    "md5:" \o ToString(SumSeq([i \in 1..Len(os_walk) |->
                                  IF re_search_pat(os_walk[i].root) THEN d[os_walk[i].root] ELSE 0]))

\* variant: every file of a tab or panel folder is summed, icons included
calculate_hash_AllFiles(d) ==
    LET FileSum(files) == SumSeq([i \in 1..Len(files) |-> d[files[i]]])
        mtime_sum ==
            SumSeq([i \in 1..Len(os_walk) |->
                        IF re_search_pat(os_walk[i].root)
                        THEN d[os_walk[i].root] + FileSum(os_walk[i].files) ELSE 0])
    IN "md5:" \o ToString(mtime_sum)

\* hashlib.md5(str(mtime_sum)).hexdigest(). Modification times are whole
\* numbers, which str() prints digit for digit below 10^12.
calculate_hash(d) ==
    LET FileSum(files) ==
            SumSeq([i \in 1..Len(files) |->
                        IF re_search_patfile(files[i]) THEN d[files[i]] ELSE 0])
        mtime_sum ==
            SumSeq([i \in 1..Len(os_walk) |->
                        IF re_search_pat(os_walk[i].root)
                        THEN d[os_walk[i].root] + FileSum(os_walk[i].files) ELSE 0])
    IN "md5:" \o ToString(mtime_sum)

NoTab == [state |-> "none"]

\* The Tab object a session builds for the folder before it knows its content
Tab(d) ==
    [state |-> "new",
     dict |-> [tabName |-> "T1", tabFolder |-> "T1.tab", tabHash |-> calculate_hash(d),
               loaded_from_cache |-> FALSE, panels |-> <<>>]]

\* The panels a parse of the folder gives: the script at its current revision
ParsedPanels(d) ==
    << [cls |-> "Panel",
        dict |-> [panelName |-> "P1",
                  scripts |-> << [cls |-> "Command",
                                  dict |-> [name |-> "G1_a", rev |-> d["G1_a.py"]]] >>]] >>

get_clean_dict(obj) == obj.dict

\* tab.load_from_cache(cached_tab_dict): every item of the dict becomes a field
load_from_cache(cached_tab, cached_tab_dict) ==
    [state |-> "cached",
     dict |-> [(cached_tab_dict @@ cached_tab.dict) EXCEPT !.loaded_from_cache = TRUE]]

\* JSON text as tokens: "{", "," and "}" and one token per key/value pair
Tok(t) == [t |-> t, k |-> "", v |-> ""]

Pair(k, v) == [t |-> "pair", k |-> k, v |-> v]

\* sort_keys=True: the keys a tab dict can hold, in sorted order
KeyOrder == <<"cacheVersion", "loaded_from_cache", "panels", "tabFolder", "tabHash", "tabName">>

\* json encoding of a value: objects go through default=get_clean_dict, scalars as they are
JsonValue(k, v) ==
    IF k # "panels" THEN v
    ELSE [i \in 1..Len(v) |->
            [get_clean_dict(v[i]) EXCEPT
                !.scripts = [j \in 1..Len(@) |-> get_clean_dict(@[j])]]]

RECURSIVE CommaSeparated(_)
CommaSeparated(pairs) ==
    IF Len(pairs) <= 1 THEN pairs
    ELSE <<pairs[1], Tok(",")>> \o CommaSeparated(Tail(pairs))

\* json.dumps(dict, sort_keys=True)
json_dumps(d) ==
    LET keys == SelectSeq(KeyOrder, LAMBDA k : k \in DOMAIN d)
    IN <<Tok("{")>>
       \o CommaSeparated([i \in 1..Len(keys) |-> Pair(keys[i], JsonValue(keys[i], d[keys[i]]))])
       \o <<Tok("}")>>

\* json.load: an object with comma separated pairs, the last value of a repeated key wins
json_load(text) ==
    LET n == Len(text)
        wellformed == /\ n >= 2
                      /\ text[1].t = "{"
                      /\ text[n].t = "}"
                      /\ \A i \in 2..(n - 1) : text[i].t = (IF i % 2 = 0 THEN "pair" ELSE ",")
                      /\ (n = 2 \/ n % 2 = 1)
        keys == {text[i].k : i \in {j \in 2..(n - 1) : text[j].t = "pair"}}
        LastOf(k) == CHOOSE i \in 2..(n - 1) :
                        /\ text[i].t = "pair" /\ text[i].k = k
                        /\ \A j \in (i + 1)..(n - 1) : ~(text[j].t = "pair" /\ text[j].k = k)
    IN IF wellformed THEN [exc |-> "none", dict |-> [k \in keys |-> text[LastOf(k)].v]]
       ELSE [exc |-> "ValueError", dict |-> <<>>]

\* variant: the opening brace of json.dumps is kept after the cacheVersion pair
serialize_KeepBrace(obj, ver) ==
    <<Tok("{"), Pair("cacheVersion", ver), Tok(",")>> \o json_dumps(get_clean_dict(obj))

\* serialize: the cacheVersion pair takes the place of the opening brace
serialize(obj, ver) ==
    <<Tok("{"), Pair("cacheVersion", ver), Tok(",")>> \o Tail(json_dumps(get_clean_dict(obj)))

read_cache_for(file) ==
    IF file.kind # "text" THEN [exc |-> "PyRevitCacheReadError", dict |-> <<>>]
    ELSE LET r == json_load(file.text)
         IN IF r.exc = "none" THEN r ELSE [exc |-> "PyRevitCacheReadError", dict |-> <<>>]

write_cache_for(parsed_tab, file, ver) ==
    IF file.readonly THEN [exc |-> "PyRevitCacheWriteError", file |-> file]
    ELSE [exc |-> "none",
          file |-> [kind |-> "text", text |-> serialize(parsed_tab, ver), readonly |-> FALSE]]

\* variant: nothing is ever written
update_cache_Never(parsed_tab, file, ver) == [exc |-> "none", file |-> file]

update_cache(parsed_tab, file, ver) ==
    IF ~ parsed_tab.dict.loaded_from_cache THEN write_cache_for(parsed_tab, file, ver)
    ELSE [exc |-> "none", file |-> file]

\* variant: the hash is compared, the version is not
get_cached_tab_HashOnly(cached_tab, file, ver) ==
    LET r == read_cache_for(file)
    IN IF r.exc = "none" /\ "tabHash" \in DOMAIN r.dict
          /\ r.dict.tabHash = cached_tab.dict.tabHash
       THEN [exc |-> "none", tab |-> load_from_cache(cached_tab, r.dict)]
       ELSE [exc |-> "PyRevitCacheError", tab |-> cached_tab]

\* get_cached_tab: a read error leaves as PyRevitCacheReadError, everything
\* raised inside the try (KeyError, PyRevitCacheExpiredError) as PyRevitCacheError
get_cached_tab(cached_tab, file, ver) ==
    LET r == read_cache_for(file)
    IN IF r.exc # "none" THEN [exc |-> r.exc, tab |-> cached_tab]
       ELSE IF "tabHash" \notin DOMAIN r.dict THEN [exc |-> "PyRevitCacheError", tab |-> cached_tab]
       ELSE IF r.dict.tabHash = cached_tab.dict.tabHash
               /\ "cacheVersion" \in DOMAIN r.dict
               /\ r.dict.cacheVersion = ver
       THEN [exc |-> "none", tab |-> load_from_cache(cached_tab, r.dict)]
       ELSE [exc |-> "PyRevitCacheError", tab |-> cached_tab]

\* ---- the cache across sessions ----

NoSnapshot == [exc |-> "none", dict |-> <<>>]

\* A cache file with one field cut out
DropPair(text, key) ==
    LET idx == {i \in 1..Len(text) : text[i].t = "pair" /\ text[i].k = key}
        i == CHOOSE j \in idx : TRUE
    IN IF idx = {} THEN text
       ELSE IF i < Len(text) /\ text[i + 1].t = "," THEN SubSeq(text, 1, i - 1) \o SubSeq(text, i + 2, Len(text))
       ELSE SubSeq(text, 1, i - 2) \o SubSeq(text, i + 1, Len(text))

\* What can happen to the cache file between two sessions: deleted, made
\* unreadable, overwritten with something else, cut short, a field lost
DamagedFiles(file) ==
    {[file EXCEPT !.kind = "missing", !.text = <<>>],
     [file EXCEPT !.kind = "unreadable"],
     [file EXCEPT !.kind = "text", !.text = <<Tok("garbage")>>]}
    \cup (IF file.kind = "text" /\ Len(file.text) > 1
          THEN {[file EXCEPT !.text = Front(file.text)],
                [file EXCEPT !.text = DropPair(file.text, "tabHash")],
                [file EXCEPT !.text = DropPair(file.text, "cacheVersion")]}
          ELSE {})

\* What changed since the last store: nothing, one thing, or several things
Since(change) ==
    IF outcome.since \in {{}, {change}} THEN {change}
    ELSE IF outcome.since = {"no store"} THEN outcome.since
    ELSE {"several"}

InitCache == IdleUI /\ IdleDisc /\ IdleCache /\ IdleLoad

\* A session starts and builds its Tab object; the fingerprint is taken here
NewTab ==
    /\ tabObj.state = "none"
    /\ tabObj' = Tab(disk)
    /\ outcome' = [outcome EXCEPT !.op = "Tab", !.exc = "none", !.before = tabObj,
                                  !.snapshot = NoSnapshot]
    /\ UNCHANGED <<disk, cacheFile, version, uiVars, discVars, loadVars>>

GetCachedTab ==
    /\ tabObj.state \in {"new", "parsed"}
    /\ LET r == get_cached_tab(tabObj, cacheFile, version)
       IN /\ tabObj' = r.tab
          /\ outcome' = [outcome EXCEPT !.op = "get_cached_tab", !.exc = r.exc,
                                        !.before = tabObj, !.snapshot = read_cache_for(cacheFile)]
    /\ UNCHANGED <<disk, cacheFile, version, uiVars, discVars, loadVars>>

\* The folder of a new tab is parsed
Parse ==
    /\ tabObj.state = "new"
    /\ tabObj' = [state |-> "parsed", dict |-> [tabObj.dict EXCEPT !.panels = ParsedPanels(disk)]]
    /\ outcome' = [outcome EXCEPT !.op = "parse", !.exc = "none", !.before = tabObj,
                                  !.snapshot = NoSnapshot]
    /\ UNCHANGED <<disk, cacheFile, version, uiVars, discVars, loadVars>>

UpdateCache ==
    /\ tabObj.state \in {"parsed", "cached"}
    /\ LET r == update_cache(tabObj, cacheFile, version)
           wrote == r.exc = "none" /\ ~ tabObj.dict.loaded_from_cache
       IN /\ cacheFile' = r.file
          /\ outcome' = [op |-> "update_cache", exc |-> r.exc, before |-> tabObj,
                         snapshot |-> NoSnapshot,
                         fresh |-> IF wrote THEN [valid |-> TRUE, tab |-> tabObj]
                                   ELSE outcome.fresh,
                         since |-> IF wrote THEN {} ELSE outcome.since]
    /\ UNCHANGED <<disk, tabObj, version, uiVars, discVars, loadVars>>

EndSession ==
    /\ tabObj.state # "none"
    /\ tabObj' = NoTab
    /\ outcome' = [outcome EXCEPT !.op = "none", !.exc = "none", !.before = NoTab,
                                  !.snapshot = NoSnapshot]
    /\ UNCHANGED <<disk, cacheFile, version, uiVars, discVars, loadVars>>

\* Between sessions: a folder or file of the tab is modified
Touch(e) ==
    /\ tabObj.state = "none"
    /\ disk[e] < MaxTime
    /\ disk' = [disk EXCEPT ![e] = @ + 1]
    /\ outcome' = [outcome EXCEPT !.fresh = [valid |-> FALSE], !.since = Since(e)]
    /\ UNCHANGED <<cacheFile, tabObj, version, uiVars, discVars, loadVars>>

\* Between sessions: another pyRevit version is installed
Upgrade ==
    /\ tabObj.state = "none"
    /\ version' \in Versions \ {version}
    /\ outcome' = [outcome EXCEPT !.fresh = [valid |-> FALSE], !.since = Since("version")]
    /\ UNCHANGED <<disk, cacheFile, tabObj, uiVars, discVars, loadVars>>

\* Between sessions: the cache file is damaged
Damage ==
    /\ tabObj.state = "none"
    /\ cacheFile' \in DamagedFiles(cacheFile) \ {cacheFile}
    /\ outcome' = [outcome EXCEPT !.fresh = [valid |-> FALSE], !.since = Since("damage")]
    /\ UNCHANGED <<disk, tabObj, version, uiVars, discVars, loadVars>>

\* Between sessions: USER_TEMP_DIR becomes read-only or writable again
Protect ==
    /\ tabObj.state = "none"
    /\ cacheFile' = [cacheFile EXCEPT !.readonly = ~ @]
    /\ UNCHANGED <<disk, tabObj, version, outcome, uiVars, discVars, loadVars>>

NextCache ==
    \/ NewTab
    \/ GetCachedTab
    \/ Parse
    \/ UpdateCache
    \/ EndSession
    \/ \E e \in DOMAIN disk : Touch(e)
    \/ Upgrade
    \/ Damage
    \/ Protect

SpecCache == InitCache /\ [][NextCache]_vars

\* The snapshot read from the cache file is usable: it parsed, and it carries the
\* running version and the fingerprint the folder has now
SnapshotUsable ==
    /\ outcome.snapshot.exc = "none"
    /\ "cacheVersion" \in DOMAIN outcome.snapshot.dict
    /\ "tabHash" \in DOMAIN outcome.snapshot.dict
    /\ outcome.snapshot.dict.cacheVersion = version
    /\ outcome.snapshot.dict.tabHash = calculate_hash(disk)

\* C7: get_cached_tab loads a snapshot into the tab only if the snapshot's
\* cacheVersion is the running version and its tabHash is the fingerprint of the
\* folder; in every other case it raises and the tab keeps every field it had.
C7_SnapshotAppliedOnlyIfUsable ==
    (outcome.op = "get_cached_tab" /\ ~ SnapshotUsable)
        => (tabObj = outcome.before /\ outcome.exc # "none")

C7_Witness ==
    /\ outcome.op = "get_cached_tab"
    /\ SnapshotUsable
    /\ tabObj.dict.loaded_from_cache
    /\ tabObj # outcome.before

----------------------------------------------------------------------------
(* The load loop: Lib/pyRevit/session.py load(), with the package-level       *)
(* functions of _cache.py it calls                                            *)

MaxPkgs == 2            \* installed packages

PkgNames == <<"A", "B", "C", "D">>

\* Python None where a package object is expected
NoneObject == [state |-> "None"]

\* is_cached_tab_valid: the body is pass, the call gives None, which is false
is_cached_tab_valid(cached_tab) == FALSE

is_cache_valid(cached_pkg) ==
    \A i \in 1..Len(cached_pkg.children) : is_cached_tab_valid(cached_pkg.children[i])

\* get_cached_package calls itself on every component and returns nothing; an
\* object that cannot be iterated ends the descent with TypeError
RECURSIVE get_cached_package(_)
get_cached_package(cached_pkg) ==
    IF "children" \notin DOMAIN cached_pkg THEN [exc |-> "TypeError", value |-> NoneObject]
    ELSE IF \E i \in 1..Len(cached_pkg.children) :
                get_cached_package(cached_pkg.children[i]).exc # "none"
    THEN [exc |-> "TypeError", value |-> NoneObject]
    ELSE [exc |-> "none", value |-> NoneObject]

\* The package a parse of the folder gives, with the fields update_cache reads
get_parsed_package(pkg_info) ==
    [state |-> "parsed", children |-> pkg_info.children,
     dict |-> [tabName |-> pkg_info.name, tabFolder |-> pkg_info.name, tabHash |-> "md5:0",
               loaded_from_cache |-> FALSE, panels |-> <<>>]]

\* get_installed_packages: one to MaxPkgs packages, each with no tab or one tab
Packages(n) ==
    {[i \in 1..n |-> [name |-> PkgNames[i], children |-> t[i]]] :
        t \in [1..n -> {<<>>, <<[name |-> "T1", children |-> <<>>]>>}]}

\* The states the cache file of a package can be found in
CacheKinds == {"valid", "missing", "unreadable", "garbage", "nofield", "oldversion", "oldhash"}

FileOfKind(kind, pkg_info, readonly) ==
    LET obj == get_parsed_package(pkg_info)
        text == CASE kind = "valid" -> serialize(obj, "v1")
                  [] kind = "oldversion" -> serialize(obj, "v2")
                  [] kind = "oldhash" -> serialize([obj EXCEPT !.dict.tabHash = "md5:1"], "v1")
                  [] kind = "nofield" -> DropPair(serialize(obj, "v1"), "tabHash")
                  [] kind = "garbage" -> <<Tok("garbage")>>
                  [] OTHER -> <<>>
    IN [kind |-> IF kind \in {"missing", "unreadable"} THEN kind ELSE "text",
        text |-> text, readonly |-> readonly]

InitLoad ==
    /\ IdleUI /\ IdleDisc /\ IdleCache /\ IdleElements /\ IdleRoots /\ IdlePkgs
    /\ \E n \in 1..MaxPkgs :
          /\ installed \in Packages(n)
          /\ \E kinds \in [1..n -> CacheKinds], readonly \in BOOLEAN :
                env = [readonly |-> readonly,
                       kind |-> [i \in 1..n |-> kinds[i]],
                       file |-> [i \in 1..n |-> FileOfKind(kinds[i], installed[i], readonly)]]
    /\ loaded = [status |-> "idle", i |-> 1, exc |-> "none", results |-> <<>>]

\* One turn of the for loop of load(); an exception of a call leaves load()
LoadPackage ==
    /\ loaded.status \in {"idle", "running"}
    /\ loaded.i <= Len(installed)
    /\ LET pkg_info == installed[loaded.i]
           hit == is_cache_valid(pkg_info)
           cached == get_cached_package(pkg_info)
           parsed == get_parsed_package(pkg_info)
           w == update_cache(parsed, env.file[loaded.i], version)
           exc == IF hit THEN cached.exc ELSE w.exc
           result == [i |-> loaded.i,
                      path |-> IF hit THEN "cache" ELSE "parsed",
                      package |-> IF hit THEN cached.value ELSE parsed,
                      stored |-> ~ hit /\ w.exc = "none",
                      assembled |-> exc = "none"]
       IN /\ env' = IF hit THEN env ELSE [env EXCEPT !.file[loaded.i] = w.file]
          /\ loaded' = IF exc # "none"
                       THEN [loaded EXCEPT !.status = "raised", !.exc = exc,
                                           !.results = Append(@, result)]
                       ELSE [loaded EXCEPT
                                !.status = IF loaded.i = Len(installed) THEN "done" ELSE "running",
                                !.i = @ + 1,
                                !.results = Append(@, result)]
    /\ UNCHANGED <<installed, panelDir, panelObj, tabRoots, tempDir, call, ribbon, reconciled, uiVars, discVars, cacheVars>>

NextLoad == LoadPackage

SpecLoad == InitLoad /\ [][NextLoad]_vars

\* C5: a failure raised while one package is set up does not stop the loop:
\* when load() is over, every other installed package has been processed.
C5_OtherPackagesProcessed ==
    loaded.status \in {"done", "raised"} =>
        \A i \in 1..Len(installed) :
            (loaded.status = "raised" /\ i = loaded.i)
            \/ \E k \in 1..Len(loaded.results) :
                  loaded.results[k].i = i /\ loaded.results[k].assembled

\* The cache file of package i was found missing, unreadable, unparsable, short
\* of a field, or of another version or hash
CacheFailure(i) == env.kind[i] # "valid"

\* C8: a package whose cache file fails in any of these ways is not fatal to
\* the load: the package is produced by a parse and the cache is stored again.
C8_CacheFailureIsMiss ==
    \A k \in 1..Len(loaded.results) :
        LET r == loaded.results[k]
        IN (installed[r.i].children # <<>> /\ CacheFailure(r.i)) =>
              /\ loaded.status # "raised"
              /\ r.path = "parsed"
              /\ r.stored
              /\ read_cache_for(env.file[r.i]).exc = "none"

\* C9: when the cache is taken as valid, the package handed to create_assembly
\* is a package object equal to the one a parse of the folder gives, not None.
C9_CachedPackageHandedOn ==
    \A k \in 1..Len(loaded.results) :
        LET r == loaded.results[k]
        IN r.path = "cache" =>
              /\ r.package # NoneObject
              /\ r.package.children = get_parsed_package(installed[r.i]).children

----------------------------------------------------------------------------
(* Cache invalidation and write policy *)

UpdateCacheStep ==
    /\ tabObj.state \in {"parsed", "cached"}
    /\ tabObj' = tabObj
    /\ outcome'.op = "update_cache"

----------------------------------------------------------------------------
(* Decoding of file names: ScriptGroup.__init__ and ScriptCommand.__init__ *)

\* The tokens of the name of file i of the folder
Pieces(i) == rsplit(searchdir[i].fname)

\* C18: a group descriptor of 4 tokens with the order token "10" is decoded to
\* sortOrder 10 and its panel name, type and name; the 3-token form to the same
\* sortOrder, type and name with the panel left as it is; the 6-token form also
\* to its assembly name; a script of 2 tokens to its group name and command name.
C18_NameDecoded ==
    found.status # "idle" =>
        /\ found.status = "done"
        /\ \A i \in 1..Len(searchdir) :
              (/\ searchdir[i].fext = iconFileFormat
               /\ Pieces(i)[1] = <<"1", "0">>
               /\ Len(Pieces(i)) \in {3, 4, 6}
               /\ (Len(Pieces(i)) = 6 => Pieces(i)[5] \in LoadedAssemblies))
              => \E k \in 1..Len(found.groups) :
                    LET g == found.groups[k]
                        t == IF Len(Pieces(i)) = 3 THEN 2 ELSE 3
                    IN /\ g.sourceFile = searchdir[i]
                       /\ g.groupOrder = 10
                       /\ g.groupType = Pieces(i)[t]
                       /\ g.groupName = Pieces(i)[t + 1]
                       /\ g.panelName = (IF Len(Pieces(i)) = 3 THEN <<>> ELSE Pieces(i)[2])
                       /\ (Len(Pieces(i)) = 6 => g.assemblyName = Pieces(i)[5])
        /\ \A i \in 1..Len(searchdir) :
              (/\ searchdir[i].fext = ".py"
               /\ searchdir[i].readable
               /\ searchdir[i].fname[1] # "_"
               /\ Len(Pieces(i)) = 2)
              => \E k \in 1..Len(found.commands) :
                    /\ found.commands[k].fileName = searchdir[i]
                    /\ found.commands[k].scriptGroupName = Pieces(i)[1]
                    /\ found.commands[k].cmdName = Pieces(i)[2]

\* C19: a descriptor whose name has a token count outside {2, 3, 4, 6}, or an
\* order token that is not a number, gives no group; a script whose name has a
\* token count other than 2 gives no command.
C19_BadTokenCountGivesNoNode ==
    found.status = "done" =>
        \A i \in 1..Len(searchdir) :
            /\ (/\ searchdir[i].fext = iconFileFormat
                /\ (Len(Pieces(i)) \notin {2, 3, 4, 6} \/ ~ isdigit(Pieces(i)[1])))
               => \A k \in 1..Len(found.groups) : found.groups[k].sourceFile # searchdir[i]
            /\ (searchdir[i].fext = ".py" /\ Len(Pieces(i)) # 2)
               => \A k \in 1..Len(found.commands) : found.commands[k].fileName # searchdir[i]

----------------------------------------------------------------------------
(* Order of the operations of one reload pass *)

\* Operation c is applied to a child of the level that operation d cleans
ChildOfCleanedLevel(c, d) ==
    /\ c.op \in {"create", "update"}
    /\ d.op = "disable"
    /\ \/ d.level = "button" /\ c.level = "button"
          /\ c.tab = d.tab /\ c.panel = d.panel /\ c.item = d.item
       \/ d.level = "item" /\ c.level \in {"item", "button"}
          /\ c.tab = d.tab /\ c.panel = d.panel
       \/ d.level = "panel" /\ c.level \in {"panel", "item", "button"} /\ c.tab = d.tab
       \/ d.level = "tab"

----------------------------------------------------------------------------
(* PyRevitUISession.__init__: the reload command and the walk of the        *)
(* extension root (tabs, bundled and loose panels, groups, scripts)         *)

tabPostfix == ".tab"
panelBundlePostfix == ".panel"

\* fullfilename.startswith(('.', '_'))
IsPrivate(e) == e.fname[1] \in {".", "_"}

\* ScriptPanel.__init__: the object built, or the exception that leaves it
ScriptPanel(e, tabname, bundledpanel) ==
    LET namepieces == rsplit(e.fname)
        blank == [panelOrder |-> 0, panelName |-> <<>>, scriptGroups |-> <<>>,
                  tabName |-> tabname, isBundled |-> bundledpanel]
    IN IF bundledpanel THEN [exc |-> "none", obj |-> [blank EXCEPT !.panelName = e.fname]]
       ELSE IF ~ (iconFileFormat = e.fext /\ isdigit(Slice(e.fname, 0, 3)))
       THEN [exc |-> "UnknownFileNameFormat", obj |-> blank]
       ELSE IF Len(namepieces) \notin {4, 6}
       THEN [exc |-> "UnknownFileNameFormat", obj |-> blank]
       ELSE [exc |-> "none",
             obj |-> [blank EXCEPT !.panelOrder = int(Slice(namepieces[1], 0, 2)).val,
                                   !.panelName = namepieces[2]]]

\* ScriptPanel.adoptgroups: already_adopted_groups is read once, before the loop
adoptgroups(panel, pyrevitscriptgroups) ==
    LET already == {panel.scriptGroups[i].groupName : i \in 1..Len(panel.scriptGroups)}
        Mine(group) == /\ group.panelName = panel.panelName
                       /\ group.tabName = panel.tabName
                       /\ group.groupName \notin already
    IN [panel EXCEPT !.scriptGroups = @ \o SelectSeq(pyrevitscriptgroups, Mine)]

\* ScriptTab.__init__
ScriptTab(e) ==
    [tabName |-> e.fname, tabDirName |-> e.fname \o <<e.fext>>, scriptPanels |-> <<>>]

\* ScriptTab.adopt_panels: already_adopted_panels is read once, before the loop
adopt_panels(tab, pyrevitscriptpanels) ==
    LET already == {tab.scriptPanels[i].panelName : i \in 1..Len(tab.scriptPanels)}
        Mine(panel) == panel.tabName = tab.tabName /\ panel.panelName \notin already
    IN [tab EXCEPT !.scriptPanels = @ \o SelectSeq(pyrevitscriptpanels, Mine)]

\* find_scriptpanels, the loop: a panel that is already collected is not looked at again
RECURSIVE PanelsFrom(_, _, _)
PanelsFrom(files, tabname, acc) ==
    IF files = <<>> \/ acc.status = "raised" THEN acc
    ELSE LET e == files[1]
             is_panel_bundled == isdir(e) /\ ~ IsPrivate(e) /\ e.fext = panelBundlePostfix
             is_panel_defined_by_png == e.fext = iconFileFormat
             r == ScriptPanel(e, tabname, is_panel_bundled)
             Collect(s1) ==
                 LET collectedscriptpanels ==
                         {<<s1.panels[i].panelName, s1.panels[i].tabName>> :
                             i \in 1..Len(s1.panels)}
                 IN IF s1.status = "raised" THEN s1
                    ELSE IF <<r.obj.panelName, r.obj.tabName>> \notin collectedscriptpanels
                    THEN [s1 EXCEPT !.panels = Append(@, adoptgroups(r.obj, s1.groups))]
                    ELSE s1
             next == IF ~ (is_panel_bundled \/ is_panel_defined_by_png) THEN acc
                     ELSE IF r.exc # "none" THEN acc
                     ELSE IF is_panel_bundled
                     THEN CHOOSE out \in
                              {Collect(s1) :
                                  s1 \in {find_scriptgroups(acc, e.entries, tabname,
                                                            r.obj.panelName)}} : TRUE
                     ELSE Collect(acc)
         IN CHOOSE out \in {PanelsFrom(Tail(files), tabname, a) : a \in {next}} : TRUE

find_scriptpanels(self, files, tabname) ==
    CHOOSE out \in {PanelsFrom(files, tabname, a) :
                       a \in {find_scriptgroups(self, files, tabname, <<>>)}} : TRUE

\* find_scripttabs: a tab folder, a folder to descend into, or an entry to pass over
RECURSIVE find_scripttabs(_, _)
find_scripttabs(self, entries) ==
    IF entries = <<>> \/ self.status = "raised" THEN self
    ELSE LET e == entries[1]
             scripttab == ScriptTab(e)
             known == {i \in 1..Len(self.tabs) : self.tabs[i].tabDirName = scripttab.tabDirName}
             Adopt(s1) ==
                 IF s1.status = "raised" THEN s1
                 ELSE IF known = {}
                 THEN [s1 EXCEPT !.tabs = Append(@, adopt_panels(scripttab, s1.panels))]
                 ELSE LET i == CHOOSE k \in known : TRUE
                      IN [s1 EXCEPT !.tabs[i] = adopt_panels(@, s1.panels)]
             next == IF isdir(e) /\ ~ IsPrivate(e) /\ e.fext = tabPostfix
                     THEN CHOOSE out \in
                              {Adopt(s1) :
                                  s1 \in {find_scriptpanels(self, e.entries, scripttab.tabName)}} :
                              TRUE
                     ELSE IF isdir(e) /\ ~ IsPrivate(e) THEN find_scripttabs(self, e.entries)
                     ELSE self
         IN CHOOSE out \in {find_scripttabs(a, Tail(entries)) : a \in {next}} : TRUE

\* create_reload_button: every exception of ScriptCommand skips the file
create_reload_button(self, files) ==
    LET Makes(e) == /\ ~ isdir(e)
                    /\ Contains(e.fname \o <<e.fext>>, pyRevitInitScriptName)
                    /\ ScriptCommand(e, <<masterTabName>>).exc = "none"
        made == SelectSeq(files, Makes)
    IN [self EXCEPT !.commands =
            @ \o [i \in 1..Len(made) |-> ScriptCommand(made[i], <<masterTabName>>).obj]]

----------------------------------------------------------------------------
(* Extension roots and loader folders a session may find *)

PanelFiles ==
    { File(<<<<"1", "0">>, <<"PulldownButton">>, <<"G1">>>>, ".png", TRUE, 1),
      File(<<<<"1", "0">>, <<"PulldownButton">>, <<"G2">>>>, ".png", TRUE, 2),
      File(<<<<"G1">>, <<"a">>>>, ".py", TRUE, 3) }

\* os.listdir of a panel folder
PanelListings ==
    {s \in UNION {[1..n -> PanelFiles] : n \in 0..MaxFiles} :
        \A i, j \in 1..Len(s) : i # j => s[i] # s[j]}

PanelNames == {"P1", "P2"}

PanelFolders == {Dir(<<<<n>>>>, panelBundlePostfix, l, IF n = "P1" THEN 1 ELSE 2) :
                    n \in PanelNames, l \in PanelListings}

\* A descriptor lying in the tab folder itself: it names its panel, P1
LooseFile ==
    File(<<<<"1", "0", "0", "5">>, <<"P1">>, <<"PulldownButton">>, <<"G1">>>>, ".png", TRUE, 0)

\* A folder T1.tab holding bundled panels of different names and maybe the loose descriptor
TabFolders ==
    {Dir(<<<<"T1">>>>, tabPostfix, es, 2) :
        es \in {s \in UNION {[1..n -> PanelFolders \cup {LooseFile}] :
                                 n \in 0..(Cardinality(PanelNames) + 1)} :
                   \A i, j \in 1..Len(s) : i # j => s[i].fname # s[j].fname}}

\* A folder that is no tab and holds another T1.tab
ExtFolder(t) == Dir(<<<<"ext">>>>, "", <<t>>, 1)

HomeDirs ==
    {<<>>} \cup {<<t>> : t \in TabFolders}
    \cup UNION {{<<t, ExtFolder(u)>>, <<ExtFolder(u), t>>} :
                   t, u \in {x \in TabFolders : Len(x.entries) = 1}}

\* The loader folder: with __init__.py, also with a compiled __init__, or
\* (loader inside an add-in .dll, find_loader_directory) with neither
LoaderListings ==
    LET init == <<<<>>, <<>>, <<"init">>, <<>>, <<>>>>
    IN { <<File(init, ".py", TRUE, 2)>>,
         <<File(init, ".pyc", TRUE, 3), File(init, ".py", TRUE, 2)>>,
         <<File(<<<<"RevitPythonLoader">>>>, ".dll", TRUE, 1)>> }

InitSession ==
    /\ IdleUI /\ IdleCache /\ IdleLoad
    /\ searchdir = <<>> /\ found = [status |-> "idle"]
    /\ homeDir \in HomeDirs
    /\ loaderDir \in LoaderListings
    /\ session = [status |-> "idle"]

\* PyRevitUISession.__init__ lines 527-531 when a command loader class was found
Discover ==
    /\ session.status = "idle"
    /\ session' \in {find_scripttabs(a, homeDir) :
                       a \in {create_reload_button(NewSession, loaderDir)}}
    /\ UNCHANGED <<searchdir, found, homeDir, loaderDir, uiVars, cacheVars, loadVars>>

\* PyRevitUISession.__init__ lines 540-541: no command loader class, nothing is discovered
LoadFailed ==
    /\ session.status = "idle"
    /\ session' = [status |-> "load failed"]
    /\ UNCHANGED <<searchdir, found, homeDir, loaderDir, uiVars, cacheVars, loadVars>>

NextSession == Discover \/ LoadFailed

SpecSession == InitSession /\ [][NextSession]_vars

----------------------------------------------------------------------------
(* The tree a discovery run leaves *)

\* The same folders and files, listed in another order at any level
RECURSIVE Reorderings(_)
Reorderings(entries) ==
    LET n == Len(entries)
        Variants(e) == IF isdir(e) THEN {[e EXCEPT !.entries = r] : r \in Reorderings(e.entries)}
                       ELSE {e}
        All == UNION {Variants(entries[k]) : k \in 1..n}
        Perms == {f \in [1..n -> 1..n] : \A i, j \in 1..n : i # j => f[i] # f[j]}
    IN UNION {{t \in [1..n -> All] : \A i \in 1..n : t[i] \in Variants(entries[f[i]])} :
                 f \in Perms}

\* Kind, identity, sortOrder and children of every node, in the order createui visits them
CommandShape(cmd) == [kind |-> "Command", identity |-> ClassName(cmd)]

GroupShape(group) ==
    [kind |-> group.groupType, identity |-> group.groupName, sortOrder |-> group.groupOrder,
     children |-> [i \in 1..Len(group.commands) |-> CommandShape(group.commands[i])]]

PanelShape(panel) ==
    LET gs == get_sorted_scriptgroups(panel)
    IN [kind |-> "Panel", identity |-> panel.panelName, sortOrder |-> panel.panelOrder,
        children |-> [i \in 1..Len(gs) |-> GroupShape(gs[i])]]

TabShape(tab) ==
    LET ps == get_sorted_scriptpanels(tab)
    IN [kind |-> "Tab", identity |-> tab.tabName,
        children |-> [i \in 1..Len(ps) |-> PanelShape(ps[i])]]

TreeShape(s) == [status |-> s.status, tabs |-> [i \in 1..Len(s.tabs) |-> TabShape(s.tabs[i])]]

Discovered == session.status \in {"done", "raised"}

\* C13: for a fixed content of the extension root, discovery gives the same
\* tree whatever the order in which the folders are listed: every node has the
\* same kind, identity, sortOrder and sequence of children.
C13_SameTreeForEveryListingOrder ==
    Discovered =>
        \A h \in Reorderings(homeDir) :
            TreeShape(find_scripttabs(create_reload_button(NewSession, loaderDir), h))
                = TreeShape(session)

\* How often x occurs in the list
Count(x, list) == Cardinality({i \in 1..Len(list) : list[i] = x})

NoDuplicates(list) == \A i, j \in 1..Len(list) : i # j => list[i] # list[j]

\* C14: in the tree discovery leaves, the children of one parent have pairwise
\* different identities: the panels of a tab, the groups of a panel, the
\* commands of a group; a colliding entry is left out and the walk goes on.
C14_SiblingsDiffer ==
    Discovered =>
        /\ session.status = "done"
        /\ \A t \in 1..Len(session.tabs) :
              LET tab == TabShape(session.tabs[t])
              IN /\ NoDuplicates([p \in 1..Len(tab.children) |-> tab.children[p].identity])
                 /\ \A p \in 1..Len(tab.children) :
                       LET panel == tab.children[p]
                       IN /\ NoDuplicates([g \in 1..Len(panel.children) |->
                                              panel.children[g].identity])
                          /\ \A g \in 1..Len(panel.children) :
                                NoDuplicates([c \in 1..Len(panel.children[g].children) |->
                                                 panel.children[g].children[c].identity])

\* C15: after discovery every command is among the commands of at most one
\* group, every group among the groups of at most one panel, and every panel
\* among the panels of at most one tab.
C15_AtMostOneParent ==
    Discovered =>
        /\ \A c \in SeqToSet(session.commands) :
              SumSeq([i \in 1..Len(session.groups) |-> Count(c, session.groups[i].commands)])
                  <= Count(c, session.commands)
        /\ \A g \in SeqToSet(session.groups) :
              SumSeq([i \in 1..Len(session.panels) |-> Count(g, session.panels[i].scriptGroups)])
                  <= Count(g, session.groups)
        /\ \A p \in SeqToSet(session.panels) :
              SumSeq([i \in 1..Len(session.tabs) |-> Count(p, session.tabs[i].scriptPanels)])
                  <= Count(p, session.panels)

\* The tab folders find_scripttabs comes across under the root, at any depth
RECURSIVE TabDirs(_)
TabDirs(entries) ==
    IF entries = <<>> THEN <<>>
    ELSE LET e == entries[1]
         IN (IF ~ isdir(e) \/ IsPrivate(e) THEN <<>>
             ELSE IF e.fext = tabPostfix THEN <<e>>
             ELSE TabDirs(e.entries)) \o TabDirs(Tail(entries))

\* The panels a tab folder declares, and the groups it declares for them
DeclaredPanels(tabdir) ==
    {e.fname : e \in {x \in SeqToSet(tabdir.entries) :
                         isdir(x) /\ ~ IsPrivate(x) /\ x.fext = panelBundlePostfix}}
    \cup {ScriptPanel(f, tabdir.fname, FALSE).obj.panelName :
             f \in {x \in SeqToSet(tabdir.entries) :
                       ~ isdir(x) /\ ScriptPanel(x, tabdir.fname, FALSE).exc = "none"}}

GroupsIn(files, tabname, panelname) ==
    {ScriptGroup(f, tabname, panelname).obj :
        f \in {x \in SeqToSet(files) : /\ ~ isdir(x)
                                       /\ x.fext = iconFileFormat
                                       /\ ScriptGroup(x, tabname, panelname).exc = "none"}}

DeclaredGroups(tabdir) ==
    {<<g.panelName, g.groupName>> : g \in GroupsIn(tabdir.entries, tabdir.fname, <<>>)}
    \cup UNION {{<<g.panelName, g.groupName>> : g \in GroupsIn(e.entries, tabdir.fname, e.fname)} :
                   e \in {x \in SeqToSet(tabdir.entries) :
                             isdir(x) /\ ~ IsPrivate(x) /\ x.fext = panelBundlePostfix}}

\* C16: when more than one folder declares tab T1, discovery leaves one tab T1
\* that holds every panel any of the folders declares, once, and in each panel
\* every group any of the folders declares for it, once.
C16_MergedTabHoldsAll ==
    (Discovered /\ Len(TabDirs(homeDir)) > 1) =>
        /\ session.status = "done"
        /\ Len(session.tabs) = 1
        /\ \A d \in SeqToSet(TabDirs(homeDir)) :
              /\ \A p \in DeclaredPanels(d) :
                    Cardinality({i \in 1..Len(session.tabs[1].scriptPanels) :
                                    session.tabs[1].scriptPanels[i].panelName = p}) = 1
              /\ \A pg \in DeclaredGroups(d) :
                    \A i \in 1..Len(session.tabs[1].scriptPanels) :
                        session.tabs[1].scriptPanels[i].panelName = pg[1] =>
                            Cardinality({k \in 1..Len(session.tabs[1].scriptPanels[i].scriptGroups) :
                                session.tabs[1].scriptPanels[i].scriptGroups[k].groupName = pg[2]}) = 1

\* The command ScriptCommand makes of the loader's __init__ script
IsReloadCommand(cmd) ==
    /\ cmd.tabName = <<masterTabName>>
    /\ cmd.scriptGroupName = reloadScriptsOverrideGroupName
    /\ cmd.cmdName = reloadScriptsOverrideName

\* C17: after every discovery run the reload command is among the commands, in
\* the master tab, and it was added before any command of a tab folder, also
\* when the extension root holds no tab.
C17_ReloadCommandFirst ==
    Discovered =>
        \E k \in 1..Len(session.commands) :
            /\ IsReloadCommand(session.commands[k])
            /\ \A j \in 1..(k - 1) : session.commands[j].tabName = <<masterTabName>>

----------------------------------------------------------------------------
(* What a reload pass leaves on the ribbon *)

\* The pass applied an operation of kind ops to the tab, panel or item
Applied(ops, lvl, t, p, i) ==
    \E n \in DOMAIN pass.log :
        /\ pass.log[n].op \in ops
        /\ pass.log[n].level = lvl
        /\ pass.log[n].tab = t /\ pass.log[n].panel = p /\ pass.log[n].item = i

Visited(lvl, t, p, i) == Applied({"create", "update", "reuse"}, lvl, t, p, i)

\* C21: when a pass ends, every tab, panel and item that was on the ribbon
\* before the pass and that the pass did not visit has been disabled by it.
C21_UnvisitedDisabled ==
    pass.status = "done" =>
        /\ \A t \in pass.before.tabs :
              Visited("tab", t, "", "") \/ Applied({"disable"}, "tab", t, "", "")
        /\ \A k \in pass.before.panels :
              Visited("panel", k[1], k[2], "") \/ Applied({"disable"}, "panel", k[1], k[2], "")
        /\ \A k \in DOMAIN pass.before.items :
              Visited("item", k[1], k[2], k[3]) \/ ~ uiItems[k].enabled

\* The ribbon elements group g of panel p of tab t stands for are on the ribbon
GroupIsOnRibbon(t, p, g) ==
    IF g.groupType \in {pulldownButtonTypeName, splitButtonTypeName, splitPushButtonTypeName}
    THEN /\ <<t, p, g.groupName>> \in DOMAIN uiItems
         /\ \A n \in 1..Len(g.commands) :
               <<t, p, g.groupName, ClassName(g.commands[n])>> \in DOMAIN uiButtons
    ELSE IF g.groupType \in {stackedThreeTypeName, stackedTwoTypeName}
    THEN \A n \in 1..Len(g.commands) : <<t, p, ClassName(g.commands[n])>> \in DOMAIN uiItems
    ELSE IF islinkbutton(g) THEN <<t, p, g.groupName>> \in DOMAIN uiItems
    ELSE Len(g.commands) > 0 => <<t, p, ClassName(Last(g.commands))>> \in DOMAIN uiItems

\* C22: after a pass every desired item of every panel of a tab that has
\* commands is on the ribbon, whatever the kind of its group, and every command
\* of a pulldown or split group is a button of the group's item.
C22_DesiredItemsExist ==
    pass.status = "done" =>
        \A i \in 1..Len(pass.desired) :
            hascommands(pass.desired[i]) =>
                \A j \in 1..Len(pass.desired[i].scriptPanels) :
                    \A k \in 1..Len(pass.desired[i].scriptPanels[j].scriptGroups) :
                        GroupIsOnRibbon(pass.desired[i].tabName,
                                        pass.desired[i].scriptPanels[j].panelName,
                                        pass.desired[i].scriptPanels[j].scriptGroups[k])

----------------------------------------------------------------------------
(* Tabs of the ribbon: created once, reused afterwards *)

\* the operations of the pass, of the given kinds, on tab t itself
TabOps(ops, t) ==
    Cardinality({n \in DOMAIN pass.log :
                    /\ pass.log[n].op \in ops
                    /\ pass.log[n].level = "tab"
                    /\ pass.log[n].tab = t})

----------------------------------------------------------------------------
(* Nothing leaves the ribbon *)

(* C24: a reload pass removes nothing: every tab, panel, item and button    *)
(* that was on the ribbon before the pass is on it after the pass, through  *)
(* every sequence of passes with changing desired trees; an element the     *)
(* tree no longer names is disabled and stays.                              *)
C24_NothingRemoved ==
    /\ pass.before.tabs \subseteq uiTabs
    /\ pass.before.panels \subseteq uiPanels
    /\ DOMAIN pass.before.items \subseteq DOMAIN uiItems
    /\ DOMAIN pass.before.buttons \subseteq DOMAIN uiButtons

\* a pass that found an item and a button the tree no longer names
C24_Witness ==
    /\ pass.status = "done"
    /\ prev.desired # pass.desired
    /\ \E n \in DOMAIN pass.log :
           /\ pass.log[n].op = "disable"
           /\ pass.log[n].level = "item"
           /\ <<pass.log[n].tab, pass.log[n].panel, pass.log[n].item>> \in DOMAIN uiItems
    /\ \E n \in DOMAIN pass.log :
           /\ pass.log[n].op = "disable"
           /\ pass.log[n].level = "button"
           /\ <<pass.log[n].tab, pass.log[n].panel, pass.log[n].item, pass.log[n].button>>
                  \in DOMAIN uiButtons

----------------------------------------------------------------------------
(* The desired tree across a pass *)

(* C25: a reload pass leaves the desired tree as it found it: every tab,    *)
(* panel and group has the same kind, name, order and sequence of children  *)
(* after the pass as before it.                                             *)
C25_TreeUnchanged ==
    pass.status = "done" => pass.after = pass.desired

----------------------------------------------------------------------------
(* Order in which a pass takes the children of one parent *)

\* names in lexicographic order
NamesInOrder == <<"G1", "G2", "P1", "P2", "T1", "T2">>

Precedes(a, b) ==
    \E i, j \in DOMAIN NamesInOrder : NamesInOrder[i] = a /\ NamesInOrder[j] = b /\ i < j

\* sortOrder of panel p of tab t in the desired tree
PanelOrderOf(t, p) ==
    LET tab == CHOOSE x \in SeqToSet(pass.desired) : x.tabName = t
        panel == CHOOSE x \in SeqToSet(tab.scriptPanels) : x.panelName = p
    IN panel.panelOrder

\* positions of the log at which a panel is set up
PanelSteps == {n \in DOMAIN pass.log : pass.log[n].level = "panel"
                                        /\ pass.log[n].op \in {"create", "reuse"}}

(* C26: a pass takes the panels of a tab in ascending order, and panels of  *)
(* equal order in lexicographic order of their names; likewise the groups   *)
(* of a panel.                                                              *)
C26_SiblingsInOrder ==
    /\ \A m, n \in PanelSteps :
           (m < n /\ pass.log[m].tab = pass.log[n].tab) =>
               LET a == pass.log[m]
                   b == pass.log[n]
               IN \/ PanelOrderOf(a.tab, a.panel) < PanelOrderOf(b.tab, b.panel)
                  \/ /\ PanelOrderOf(a.tab, a.panel) = PanelOrderOf(b.tab, b.panel)
                     /\ Precedes(a.panel, b.panel)
    /\ \A i \in 1..Len(pass.desired) : \A j \in 1..Len(pass.desired[i].scriptPanels) :
           LET gs == get_sorted_scriptgroups(pass.desired[i].scriptPanels[j])
           IN \A m, n \in 1..Len(gs) :
                  m < n => \/ gs[m].groupOrder < gs[n].groupOrder
                           \/ /\ gs[m].groupOrder = gs[n].groupOrder
                              /\ Precedes(gs[m].groupName, gs[n].groupName)

----------------------------------------------------------------------------
(* A link descriptor whose assembly is not loaded *)

\* the descriptor names an assembly that findassembly does not find
Unresolved(f) == ScriptGroup(f, <<"T1">>, <<>>).exc = "UnknownAssembly"

\* the listing without its i-th entry
Without(s, i) == SubSeq(s, 1, i - 1) \o SubSeq(s, i + 1, Len(s))

----------------------------------------------------------------------------
(* A cache file that cannot be written *)

(* C28: when the cache file of a freshly parsed package cannot be written,  *)
(* load() goes on: the package is handed to create_assembly and the load    *)
(* does not end with the exception.                                         *)
C28_WriteFailureNotFatal ==
    \A k \in 1..Len(loaded.results) :
        LET r == loaded.results[k]
        IN (r.path = "parsed" /\ ~ r.stored) =>
              /\ r.assembled
              /\ loaded.exc = "none"

----------------------------------------------------------------------------
(* Command objects of one panel folder: Lib/pyRevit/_basicelements.py *)

MaxDirs == 2            \* command directories of the panel folder

\* config.py: the names a command directory ends with and the files it holds
PUSH_BUTTON_POSTFIX == ".pushbutton"
TOGGLE_BUTTON_POSTFIX == ".toggle"
LINK_BUTTON_POSTFIX == ".linkbutton"
DEFAULT_SCRIPT_FILE == "script.py"
DEFAULT_ICON_FILE == "icon.png"

NoFile == "None"

\* GenericCommand._is_valid_dir
is_valid_dir(cmd_dir, type_id) == cmd_dir.postfix = type_id

\* GenericCommand._verify_file
verify_file(cmd_dir, file_name) == IF file_name \in cmd_dir.files THEN file_name ELSE NoFile

\* utils.ScriptFileContents.extract_param: the module uses re and never imports it
extract_param(param) == [exc |-> "NameError", value |-> NoFile]

\* GenericCommand.__init__ for the class with this type_id: the object, or the
\* exception that leaves the constructor
GenericCommand(cmd_dir, type_id) ==
    LET script_file == verify_file(cmd_dir, DEFAULT_SCRIPT_FILE)
        doc_string == extract_param("__doc__")
        obj == [directory |-> cmd_dir, type_id |-> type_id, original_name |-> cmd_dir.name,
                icon_file |-> verify_file(cmd_dir, DEFAULT_ICON_FILE),
                script_file |-> script_file]
    IN IF ~ is_valid_dir(cmd_dir, type_id) THEN [exc |-> "PyRevitUnknownFormatError", obj |-> obj]
       ELSE IF script_file = NoFile THEN [exc |-> "PyRevitNoScriptFileError", obj |-> obj]
       ELSE IF doc_string.exc # "none" THEN [exc |-> doc_string.exc, obj |-> obj]
       ELSE [exc |-> "none", obj |-> obj]

\* ToggleButton.__init__(self) takes no directory and calls
\* GenericCommand.__init__(self) without one
ToggleButton(cmd_dir) ==
    [exc |-> "TypeError", obj |-> [directory |-> cmd_dir, type_id |-> TOGGLE_BUTTON_POSTFIX]]

\* the class of a directory is chosen by what its name ends with
CommandFor(cmd_dir) ==
    IF cmd_dir.postfix = TOGGLE_BUTTON_POSTFIX THEN ToggleButton(cmd_dir)
    ELSE GenericCommand(cmd_dir, cmd_dir.postfix)

\* the parser's loop over the command directories of a panel: a directory
\* whose command cannot be built is recorded and left out
RECURSIVE CommandsOfPanel(_, _)
CommandsOfPanel(dirs, panel) ==
    IF dirs = <<>> THEN panel
    ELSE LET r == CommandFor(dirs[1])
             next == IF r.exc = "none"
                     THEN [panel EXCEPT !.sub_components = Append(@, r.obj)]
                     ELSE [panel EXCEPT !.errors = Append(@, [name |-> dirs[1].name, exc |-> r.exc])]
         IN CHOOSE out \in {CommandsOfPanel(Tail(dirs), a) : a \in {next}} : TRUE

DirNames == <<"X", "Y", "Z", "W">>

CommandPostfixes == {PUSH_BUTTON_POSTFIX, TOGGLE_BUTTON_POSTFIX, LINK_BUTTON_POSTFIX}

\* the panel folder: command directories with or without script and icon
PanelDirListings ==
    UNION {{[i \in 1..n |-> [name |-> DirNames[i], postfix |-> px[i], files |-> fs[i]]] :
               px \in [1..n -> CommandPostfixes],
               fs \in [1..n -> SUBSET {DEFAULT_SCRIPT_FILE, DEFAULT_ICON_FILE}]} :
           n \in 0..MaxDirs}

InitElements ==
    /\ IdleUI /\ IdleDisc /\ IdleCache
    /\ installed = <<>> /\ env = <<>> /\ loaded = [status |-> "idle"]
    /\ panelDir \in PanelDirListings
    /\ panelObj = [status |-> "idle"]
    /\ IdleRoots /\ IdlePkgs

\* the commands of the panel folder are built
ParseCommands ==
    /\ panelObj.status = "idle"
    /\ panelObj' = CommandsOfPanel(panelDir, [status |-> "done", sub_components |-> <<>>,
                                                errors |-> <<>>])
    /\ UNCHANGED <<panelDir, installed, env, loaded, tabRoots, tempDir, call, ribbon, reconciled, uiVars, discVars, cacheVars>>

NextElements == ParseCommands

SpecElements == InitElements /\ [][NextElements]_vars

\* the panel holds a Command built from the directory of this name
HasNode(name) ==
    \E k \in 1..Len(panelObj.sub_components) : panelObj.sub_components[k].original_name = name

(* C29: every Command of the panel has exactly one script file, which is in *)
(* its directory; a command directory without its script file is recorded  *)
(* as an error of that command and gives no Command, and the other command  *)
(* directories of the folder, which have their script, still give theirs.   *)
C29_ScriptlessCommandLeftOut ==
    panelObj.status # "idle" =>
        /\ \A k \in 1..Len(panelObj.sub_components) :
              LET c == panelObj.sub_components[k]
              IN c.script_file = DEFAULT_SCRIPT_FILE /\ c.script_file \in c.directory.files
        /\ \A i \in 1..Len(panelDir) :
              DEFAULT_SCRIPT_FILE \notin panelDir[i].files =>
                  /\ ~ HasNode(panelDir[i].name)
                  /\ \E k \in 1..Len(panelObj.errors) : panelObj.errors[k].name = panelDir[i].name
                  /\ \A j \in 1..Len(panelDir) :
                        DEFAULT_SCRIPT_FILE \in panelDir[j].files => HasNode(panelDir[j].name)

----------------------------------------------------------------------------
(* Icons and the fingerprint *)

(* C30: after a store, changing the modification time of the icon file, and *)
(* nothing else, leaves the fingerprint of the tab as it was: the next      *)
(* session's get_cached_tab accepts the stored snapshot and loads the tab   *)
(* from it.                                                                 *)
C30_TouchedIconKeepsSnapshot ==
    (outcome.op = "get_cached_tab" /\ outcome.since = {"G1_a.png"}) =>
        /\ calculate_hash(disk) = outcome.snapshot.dict.tabHash
        /\ outcome.before.dict.tabHash = outcome.snapshot.dict.tabHash
        /\ outcome.exc = "none"
        /\ tabObj.state = "cached"
        /\ tabObj.dict.loaded_from_cache

C30_Witness ==
    /\ outcome.op = "get_cached_tab"
    /\ outcome.since = {"G1_a.png"}
    /\ disk["G1_a.png"] > 0
    /\ outcome.before.state = "new"
    /\ tabObj.state = "cached"
    /\ Len(tabObj.dict.panels) > 0

----------------------------------------------------------------------------
(* Elements that come back into the desired tree *)

\* what stands on the ribbon for group g of panel p of tab t is enabled
GroupIsEnabled(t, p, g) ==
    LET ItemOn(name) == <<t, p, name>> \in DOMAIN uiItems => uiItems[<<t, p, name>>].enabled
    IN IF g.groupType \in {pulldownButtonTypeName, splitButtonTypeName, splitPushButtonTypeName}
       THEN /\ ItemOn(g.groupName)
            /\ \A n \in 1..Len(g.commands) :
                  LET k == <<t, p, g.groupName, ClassName(g.commands[n])>>
                  IN k \in DOMAIN uiButtons => uiButtons[k].enabled
       ELSE IF g.groupType \in {stackedThreeTypeName, stackedTwoTypeName}
       THEN \A n \in 1..Len(g.commands) : ItemOn(ClassName(g.commands[n]))
       ELSE IF islinkbutton(g) THEN ItemOn(g.groupName)
       ELSE Len(g.commands) > 0 => ItemOn(ClassName(Last(g.commands)))

(* C31: after every finished pass, whatever passes came before it, each     *)
(* element of the ribbon that stands for a node of the desired tree of the  *)
(* pass, in a tab that has commands, is enabled; an item or button that an  *)
(* earlier pass disabled as an orphan is enabled by the pass that finds it  *)
(* in the tree again.                                                       *)
C31_DesiredElementsEnabled ==
    pass.status = "done" =>
        \A i \in 1..Len(pass.desired) :
            hascommands(pass.desired[i]) =>
                \A j \in 1..Len(pass.desired[i].scriptPanels) :
                    \A k \in 1..Len(pass.desired[i].scriptPanels[j].scriptGroups) :
                        GroupIsEnabled(pass.desired[i].tabName,
                                       pass.desired[i].scriptPanels[j].panelName,
                                       pass.desired[i].scriptPanels[j].scriptGroups[k])

----------------------------------------------------------------------------
(* Children that match a parent found earlier or later in the walk *)

(* C32: when discovery ends, every command whose group name and tab are     *)
(* those of a discovered group is among the commands of that group, and     *)
(* every group whose panel name and tab are those of a discovered panel is  *)
(* among the groups of that panel, in whatever order the walk met them.     *)
C32_MatchingChildrenAdopted ==
    session.status = "done" =>
        /\ \A c \in SeqToSet(session.commands) : \A g \in SeqToSet(session.groups) :
              (c.scriptGroupName = g.groupName /\ c.tabName = g.tabName)
                  => c \in SeqToSet(g.commands)
        /\ \A g \in SeqToSet(session.groups) : \A q \in SeqToSet(session.panels) :
              (g.panelName = q.panelName /\ g.tabName = q.tabName)
                  => \E k \in 1..Len(q.scriptGroups) :
                         q.scriptGroups[k].sourceFile = g.sourceFile
                         /\ q.scriptGroups[k].groupName = g.groupName

----------------------------------------------------------------------------
(* Cache files of tab folders that carry the same tab name *)

\* two packages that each hold a folder T1.tab
TabRootNames == {"pkgA/T1.tab", "pkgB/T1.tab"}

\* the entries of a tab folder whose modification time is set between sessions
TimedEntries == {"T1.tab", "G1_a.py"}

\* the Tab object a session builds for the folder at this path
TabAt(root, d) == [Tab(d) EXCEPT !.dict.tabFolder = root]

\* get_cache_file: the tab name is the only part of the file name that varies
get_cache_file(cached_tab) == "pyRevit_cache_" \o cached_tab.dict.tabName \o ".json"

CacheFileNames == {get_cache_file(TabAt(r, IdleTimes)) : r \in TabRootNames}

InitRoots ==
    /\ IdleUI /\ IdleDisc /\ IdleCache
    /\ installed = <<>> /\ env = <<>> /\ loaded = [status |-> "idle"] /\ IdleElements
    /\ tabRoots = [r \in TabRootNames |-> IdleTimes]
    /\ tempDir = [n \in CacheFileNames |->
                     [file |-> [kind |-> "missing", text |-> <<>>, readonly |-> FALSE],
                      by |-> "nobody", at |-> IdleTimes]]
    /\ call = [op |-> "none"]
    /\ IdlePkgs

\* a session parses the tab folder and calls update_cache
StoreTab(r) ==
    /\ LET d == tabRoots[r]
           tab == [state |-> "parsed",
                   dict |-> [TabAt(r, d).dict EXCEPT !.panels = ParsedPanels(d)]]
           n == get_cache_file(tab)
           w == update_cache(tab, tempDir[n].file, version)
       IN /\ tempDir' = [tempDir EXCEPT ![n] = [file |-> w.file, by |-> r, at |-> d]]
          /\ call' = [op |-> "store", root |-> r, exc |-> w.exc, tab |-> tab,
                      by |-> tempDir[n].by, at |-> tempDir[n].at]
    /\ UNCHANGED <<tabRoots, installed, env, loaded, panelDir, panelObj,
                   ribbon, reconciled, uiVars, discVars, cacheVars>>

\* a session builds the Tab of the folder and calls get_cached_tab
LoadTab(r) ==
    /\ LET tab == TabAt(r, tabRoots[r])
           n == get_cache_file(tab)
           g == get_cached_tab(tab, tempDir[n].file, version)
       IN call' = [op |-> "load", root |-> r, exc |-> g.exc, tab |-> g.tab,
                   by |-> tempDir[n].by, at |-> tempDir[n].at]
    /\ UNCHANGED <<tabRoots, tempDir, installed, env, loaded, panelDir, panelObj,
                   ribbon, reconciled, uiVars, discVars, cacheVars>>

\* between sessions: an entry of a tab folder gets another modification time
\* (edited, or put back from an older copy)
SetTime(r, e, t) ==
    /\ tabRoots[r][e] # t
    /\ tabRoots' = [tabRoots EXCEPT ![r][e] = t]
    /\ call' = [op |-> "none"]
    /\ UNCHANGED <<tempDir, installed, env, loaded, panelDir, panelObj,
                   ribbon, reconciled, uiVars, discVars, cacheVars>>

NextRoots ==
    \/ \E r \in TabRootNames : StoreTab(r)
    \/ \E r \in TabRootNames : LoadTab(r)
    \/ \E r \in TabRootNames, e \in TimedEntries, t \in 0..MaxTime : SetTime(r, e, t)

SpecRoots == InitRoots /\ [][NextRoots]_vars

(* C33: a load for one tab folder never takes a snapshot that was stored    *)
(* for another tab folder, and a store for one tab folder never writes over *)
(* the cache file of another, also when both folders carry the same tab     *)
(* name.                                                                    *)
C33_OwnCacheFileOnly ==
    /\ (call.op = "load" /\ call.exc = "none") => call.by = call.root
    /\ call.op = "store" => call.by \in {"nobody", call.root}

(* C34: when, between a store for a tab folder and the next load for it,    *)
(* the modification time of the script or of the tab folder differs from    *)
(* its value at the store, one of them or both at once, the fingerprint     *)
(* differs from the stored one and the snapshot is rejected.                *)
C34_AnyChangeRejectsSnapshot ==
    (call.op = "load" /\ call.by = call.root /\ call.at # tabRoots[call.root]) =>
        /\ calculate_hash(tabRoots[call.root]) # calculate_hash(call.at)
        /\ call.exc # "none"
        /\ ~ call.tab.dict.loaded_from_cache

----------------------------------------------------------------------------
\* The snapshot load() finds stored for installed package i passes the rule of
\* get_cached_tab: the file can be read and holds the hash and the version
SnapshotPasses(i) ==
    get_cached_tab(get_parsed_package(installed[i]),
                   FileOfKind(env.kind[i], installed[i], env.readonly), version).exc = "none"

\* C35: load() takes the cache path for a package (no parse) exactly when every
\* tab of the package has a stored snapshot that passes the validity rule; a
\* package with an invalid or missing snapshot is parsed again.
C35_CachePathIffSnapshotsValid ==
    \A k \in 1..Len(loaded.results) :
        LET r == loaded.results[k]
        IN r.path = "cache" <=>
              \A j \in 1..Len(installed[r.i].children) : SnapshotPasses(r.i)

----------------------------------------------------------------------------
\* the command buttons on the ribbon now that were not there when the pass began
AddedButtons ==
    {k \in DOMAIN uiItems \ DOMAIN pass.before.items : uiItems[k].kind = "PushButton"}
        \cup (DOMAIN uiButtons \ DOMAIN pass.before.buttons)

\* C36: the create count a pass reports is the number of command buttons the
\* pass added to the ribbon, also for a Stack3 group with fewer or more than
\* three new buttons: what is counted as created is on the ribbon at the end.
C36_CreateCountIsAdded ==
    pass.status = "done" => pass.new = Cardinality(AddedButtons)

----------------------------------------------------------------------------
\* the desired tree of the pass holds a tab with panels and without commands
HasCommandlessTabWithPanels ==
    \E i \in 1..Len(pass.desired) :
        ~ hascommands(pass.desired[i]) /\ Len(pass.desired[i].scriptPanels) > 0

\* C37: a pass whose desired tree holds a tab with panels and no command runs
\* to its end: that tab is left out, and every other tab and its panels are
\* on the ribbon afterwards.
C37_CommandlessTabSkipped ==
    (pass.status \in {"done", "crashed"} /\ HasCommandlessTabWithPanels) =>
        /\ pass.status = "done"
        /\ \A i \in 1..Len(pass.desired) :
              hascommands(pass.desired[i]) =>
                  /\ pass.desired[i].tabName \in uiTabs
                  /\ \A j \in 1..Len(pass.desired[i].scriptPanels) :
                        <<pass.desired[i].tabName, pass.desired[i].scriptPanels[j].panelName>> \in uiPanels

----------------------------------------------------------------------------
\* the class of the reload command: the __init__ script of the master tab
ReloadClassName == ClassName(CommandNode("master", "pyRevit", "reloadScripts"))

\* the push buttons of group items the pass updated
UpdatedSubButtons ==
    {<<pass.log[i].tab, pass.log[i].panel, pass.log[i].item, pass.log[i].button>> :
        i \in {j \in DOMAIN pass.log : pass.log[j].op = "update" /\ pass.log[j].level = "button"}}

\* C39: a push button of a pulldown or split group that a pass updated is
\* enabled and bound to the assembly of this session; only the button of the
\* reload command keeps the assembly it was bound to before the pass.
C39_UpdatedSubButtonRebound ==
    \A k \in UpdatedSubButtons :
        /\ uiButtons[k].enabled
        /\ uiButtons[k].AssemblyName =
              IF k[4] = ReloadClassName THEN pass.before.buttons[k].AssemblyName ELSE pass.n

\* C39 (the part that holds): an updated push button is enabled, and it is
\* bound to the assembly of this session unless its class name holds the text
\* reloadScripts, in which case it keeps the assembly it was bound to.
C39_ReboundUnlessNameHoldsReload ==
    \A k \in UpdatedSubButtons :
        /\ uiButtons[k].enabled
        /\ uiButtons[k].AssemblyName =
              IF IsPartOf(reloadScriptsText, k[4]) THEN pass.before.buttons[k].AssemblyName
              ELSE pass.n

----------------------------------------------------------------------------
(* update_revit_ui of Lib/pyRevit/_ui.py, called for one package after the    *)
(* other on the ribbon of one Revit process. The calls of update_revit_ui     *)
(* are the source's; what contains, create_*, update_* and cleanup_orphaned_* *)
(* of PyRevitUI do is taken from section 4.4 of the specification (create if  *)
(* absent, rewrite if present, disable what exists and was not visited).      *)

MaxCalls == 3           \* update_revit_ui calls on one ribbon

\* the package tree: tabs, panels, ribbon items, and the buttons of a group item
PkgItem(name, buttons) == [name |-> name, children |-> buttons]
PkgPanel(name, items) == [name |-> name, children |-> items]
PkgTab(name, panels) == [name |-> name, children |-> panels]
Package(name, tabs) == [name |-> name, children |-> tabs]

is_group(item) == Len(item.children) > 0

has_commands(tab) == \E i \in 1..Len(tab.children) : Len(tab.children[i].children) > 0

\* the elements of the ribbon directly under element path
ChildrenOf(rib, path) ==
    {k \in DOMAIN rib : Len(k) = Len(path) + 1 /\ SubSeq(k, 1, Len(path)) = path}

contains(st, path) == path \in DOMAIN st.ribbon

create_element(st, path) ==
    [st EXCEPT !.ribbon = Put(@, path, [enabled |-> TRUE]), !.visited = @ \cup {path}]

update_element(st, path) ==
    [st EXCEPT !.ribbon = Put(@, path, [enabled |-> TRUE]), !.visited = @ \cup {path}]

\* a tab or panel that exists is only looked up
reuse_element(st, path) == [st EXCEPT !.visited = @ \cup {path}]

\* cleanup_orphaned_*: what exists under path and was not visited is disabled
cleanup_orphaned(st, path) ==
    LET orphans == ChildrenOf(st.ribbon, path) \ st.visited
    IN [st EXCEPT !.ribbon = [k \in DOMAIN st.ribbon |->
                                 IF k \in orphans THEN [enabled |-> FALSE] ELSE st.ribbon[k]],
                  !.disabled = @ \cup {k \in orphans : st.ribbon[k].enabled}]

\* cleanup_orphaned_ribbon_tabs(parsed_pkg): the existing tabs the package does
\* not hold are disabled
cleanup_orphaned_ribbon_tabs(st, parsed_pkg) ==
    LET tabs == {<<parsed_pkg.children[i].name>> : i \in 1..Len(parsed_pkg.children)}
        orphans == ChildrenOf(st.ribbon, <<>>) \ tabs
    IN [st EXCEPT !.ribbon = [k \in DOMAIN st.ribbon |->
                                 IF k \in orphans THEN [enabled |-> FALSE] ELSE st.ribbon[k]],
                  !.disabled = @ \cup {k \in orphans : st.ribbon[k].enabled}]

\* level 4: the buttons of a group item that exists (lines 122-130)
RECURSIVE update_buttons(_, _, _, _)
update_buttons(st, path, buttons, i) ==
    IF i > Len(buttons) THEN cleanup_orphaned(st, path)
    ELSE LET b == Append(path, buttons[i])
         IN update_buttons(IF contains(st, b) THEN update_element(st, b) ELSE create_element(st, b),
                           path, buttons, i + 1)

\* create_ribbon_item: the item with the buttons it holds
RECURSIVE create_ribbon_item(_, _, _, _)
create_ribbon_item(st, path, buttons, i) ==
    IF i > Len(buttons) THEN st
    ELSE create_ribbon_item(create_element(st, Append(path, buttons[i])), path, buttons, i + 1)

\* level 3: the items of a panel (lines 114-136)
RECURSIVE update_items(_, _, _, _)
update_items(st, path, items, i) ==
    IF i > Len(items) THEN cleanup_orphaned(st, path)
    ELSE LET item == items[i]
             k == Append(path, item.name)
             st1 == IF contains(st, k)
                    THEN IF is_group(item)
                         THEN update_buttons(update_element(st, k), k, item.children, 1)
                         ELSE update_element(st, k)
                    ELSE create_ribbon_item(create_element(st, k), k, item.children, 1)
         IN update_items(st1, path, items, i + 1)

\* level 2: the panels of a tab (lines 108-140)
RECURSIVE update_panels(_, _, _, _)
update_panels(st, path, panels, i) ==
    IF i > Len(panels) THEN cleanup_orphaned(st, path)
    ELSE LET k == Append(path, panels[i].name)
             st1 == IF contains(st, k) THEN reuse_element(st, k) ELSE create_element(st, k)
         IN update_panels(update_items(st1, k, panels[i].children, 1), path, panels, i + 1)

\* level 1: the tabs of the package (lines 100-142)
RECURSIVE update_tabs(_, _, _)
update_tabs(st, tabs, i) ==
    IF i > Len(tabs) THEN st
    ELSE LET tab == tabs[i]
             k == <<tab.name>>
             st1 == IF contains(st, k) THEN reuse_element(st, k) ELSE create_element(st, k)
         IN update_tabs(IF has_commands(tab) THEN update_panels(st1, k, tab.children, 1) ELSE st,
                        tabs, i + 1)

update_revit_ui(st, parsed_pkg) ==
    cleanup_orphaned_ribbon_tabs(update_tabs(st, parsed_pkg.children, 1), parsed_pkg)

\* the packages a session may find installed, some in two versions
InstalledPackages ==
    { Package("A", <<PkgTab("T1", <<PkgPanel("P1", <<PkgItem("I1", <<>>)>>)>>)>>),
      Package("A", <<PkgTab("T1", <<PkgPanel("P1", <<PkgItem("G1", <<"b1", "b2">>)>>)>>)>>),
      Package("A", <<PkgTab("T1", <<PkgPanel("P1", <<PkgItem("G1", <<"b1">>)>>)>>)>>),
      Package("B", <<PkgTab("T2", <<PkgPanel("P1", <<PkgItem("I1", <<>>)>>)>>)>>),
      Package("B", <<PkgTab("T1", <<PkgPanel("P2", <<PkgItem("I2", <<>>)>>)>>)>>),
      Package("C", <<PkgTab("T3", <<PkgPanel("P1", <<>>)>>)>>) }

InitPkgs ==
    /\ IdleUI /\ IdleDisc /\ IdleCache
    /\ installed = <<>> /\ env = <<>> /\ loaded = [status |-> "idle"] /\ IdleElements /\ IdleRoots
    /\ ribbon = EmptyMap
    /\ reconciled = [n |-> 0, pkg |-> "none", tabs |-> {}, touched |-> {}, disabled |-> {},
                     prevPkg |-> "none", prevTouched |-> {}]

\* one turn of the loop of load() with the ribbon update of the package
UpdateRevitUI(parsed_pkg) ==
    /\ reconciled.n < MaxCalls
    /\ LET st == update_revit_ui([ribbon |-> ribbon, visited |-> {}, disabled |-> {}], parsed_pkg)
       IN /\ ribbon' = st.ribbon
          /\ reconciled' = [n |-> reconciled.n + 1,
                            pkg |-> parsed_pkg.name,
                            tabs |-> {parsed_pkg.children[i].name : i \in 1..Len(parsed_pkg.children)},
                            touched |-> st.visited,
                            disabled |-> st.disabled,
                            prevPkg |-> reconciled.pkg,
                            prevTouched |-> reconciled.touched]
    /\ UNCHANGED <<installed, env, loaded, panelDir, panelObj, tabRoots, tempDir, call,
                   uiVars, discVars, cacheVars>>

NextPkgs == \E parsed_pkg \in InstalledPackages : UpdateRevitUI(parsed_pkg)

SpecPkgs == InitPkgs /\ [][NextPkgs]_vars

============================================================================
